---- MODULE Spec2Model ----
(***************************************************************************)
(* A model of the multi-endpoint dispatch engine of solver-multiRPC:       *)
(* the first-success race (BaseMultiRpc.__execute_batch_tasks), the        *)
(* all-then-pick reduction (BaseMultiRpc.__gather_tasks), the view read,   *)
(* nonce acquisition, the transaction pipeline, the gas estimator and the  *)
(* endpoint registry.                                                      *)
(*                                                                         *)
(* Python values are modelled as follows.  A returned value is a tuple     *)
(* (None is the empty tuple), an exception is a record [name, at] where    *)
(* name is the exception class and at is the index of the endpoint that    *)
(* raised it (0 when the engine itself raised it), msg is what its message *)
(* quotes, and what an endpoint will do with one request is an outcome     *)
(* record [kind, val, exc].                                                *)
(***************************************************************************)
EXTENDS Integers, Sequences, FiniteSets, TLC

\* ------------------------------------------------------------- bounds
MaxEndpoints == 3

MaxSubBrackets == 2

MaxBracketSize == 2

MaxBlock == 2

MaxNonce == 1

MaxGas == 2

MaxMultiplier == 2

\* Wei amounts are counted in units of 1/WeiScale GWei.
WeiScale == 2

\* The bindings made on one facade.
MaxPending == 3

\* The endpoints that may time out on the chain id before another answers
\* or fails; that every endpoint times out is possible whatever this bound.
MaxChainTimeouts == 0

\* ------------------------------------------------------------- values
None == <<>>

Exc(name, at) == [name |-> name, at |-> at, msg |-> <<>>]

\* An exception whose message quotes another exception.
ExcAbout(name, first) == [name |-> name, at |-> 0, msg |-> <<first.name, first.at>>]

NoExc == Exc("None", 0)

Ok(v) == [kind |-> "ok", val |-> v, exc |-> NoExc]

Raise(name, at) == [kind |-> "raise", val |-> None, exc |-> Exc(name, at)]

Returned(v) == [kind |-> "return", val |-> v, exc |-> NoExc]

Raised(e) == [kind |-> "raise", val |-> None, exc |-> e]

NoOutcome == [kind |-> "none", val |-> None, exc |-> NoExc]

\* Exception classes and their base classes, as isinstance sees them.
IsInstance(e, classes) ==
    \/ e.name \in classes
    \/ /\ "Web3InterfaceException" \in classes
       /\ e.name \in {"FailedOnAllRPCs", "OutOfRangeTransactionFee", "ViewCallFailed",
                      "TransactionFailedStatus", "FailedToGetGasPrice",
                      "MaximumRPCInEachBracketReached",
                      "AtLastProvideOneValidRPCInEachBracket", "TransactionValueError",
                      "GetBlockFailed", "DontHaveThisRpcType", "NotValidViewPolicy"}

VARIABLES
    \* ---- first-success race: __execute_batch_tasks
    execution_list,        \* what each coroutine of the fan-out will do
    exception_handler,     \* the soft exception classes of this race
    final_exception,       \* the class raised when nothing was recorded
    tasks,                 \* task index -> "running" | "ok" | "exc" | "cancel_req" | "cancelled"
    cancel_event,          \* ResultEvent: [is_set, result_]
    not_completed_tasks,   \* set of task indexes
    dones,                 \* the part of dones the for loop has not visited
    exception,             \* the remembered soft failure
    terminal_exception,    \* the remembered non-soft failure
    backoffs,              \* task index -> the connection errors its coroutine still retries
    sleeping,              \* the task that is inside sleep(5), 0 when the loop's thread is free
    batch_pc,              \* "idle" | "wait" | "for" | "cancel" | "gather" | "done"
    batch_out,             \* what the race returned or raised
    \* ---- the facade: BaseMultiRpc
    providers,             \* [none, view, transaction]: role -> sub-brackets of endpoints
    contracts,             \* [view, transaction]: role -> sub-brackets of handles
    view_policy,           \* "MostUpdated" | "FirstSuccess"
    node_nonce,            \* role -> sub-bracket -> endpoint -> the nonce that node reports
    rpc_urls,              \* the brackets in iteration order: [role, urls] each
    chain_id,              \* None until setup has read it
    setup_pc,              \* "idle" | "create_web3" | "done"
    setup_out,             \* what setup returned or raised
    valid_providers,       \* create_web3_from_rpc's registry under construction
    bracket_i,             \* the bracket create_web3_from_rpc is at
    objects,               \* the ContractFunction instances: descriptors first, then pending calls
    returned,              \* the instance the latest binding returned, 0 before any
    \* ---- one logical operation
    op_name,               \* "none" | "view" | "nonce" | "tx" | ...
    op_pc,                 \* where the operation is
    op_out,                \* what the operation returned or raised
    sb,                    \* the sub-bracket the operation is at
    gather_list,           \* what each endpoint of the latest fan-out did
    view_log,              \* what each endpoint did in each fan-out of the read so far
    last_exception,        \* raw query: the soft error of the latest failed sub-bracket
    sent,                  \* the requests endpoints have received
    \* ---- the gas estimator: GasEstimation
    gas_cfg,               \* [default_method, multipliers, dev_env, rpc_only, fixed_gas,
                           \*  n_providers]
    gas_call,              \* [method, priority, gas_upper_bound] of the call in progress
    gas_pc,                \* "idle" | "run" | "done"
    gas_mode,              \* "pinned" | "rpc_only" | "cascade"
    gas_cur,               \* the method to run next
    gas_trace,             \* the methods invoked: [method, env, result] each
    gas_out,               \* what get_gas_price returned or raised
    \* ---- one transaction call: _call_tx_function, __call_tx
    tx_call,               \* [wait_for_receipt, enable_gas_estimation, gas_upper_bound,
                           \*  priority, gas_estimation_method, private_key]
    tx_params,             \* None, or [nonce, gas_params]
    signed_transaction,    \* None, or [raw_transaction, hash]
    sign_count,            \* how many times _build_and_sign_transaction was entered
    tx,                    \* None, or what the winning endpoint answered the broadcast
    stages,                \* the stages entered and left: <<stage, sub-bracket, event>>
    worker,                \* one confirmation worker: [responses, result]
    \* ---- one all-then-pick reduction: __gather_tasks under MostUpdated
    pool,                  \* [pc, execution_list, result_selector, finished, i, results,
                           \*  exceptions, out]
    \* ---- one call of a synchronous operation: thread_safe
    thread_call            \* [pc, running_loop, func, inner, result, out]

batch_vars == <<execution_list, exception_handler, final_exception, tasks, cancel_event,
                not_completed_tasks, dones, exception, terminal_exception, backoffs,
                sleeping, batch_pc, batch_out>>

setup_vars == <<rpc_urls, chain_id, setup_pc, setup_out, valid_providers, bracket_i>>

fn_vars == <<objects, returned>>

reg_vars == <<providers, contracts, view_policy, node_nonce, setup_vars, fn_vars>>

op_vars == <<op_name, op_pc, op_out, sb, gather_list, view_log, last_exception, sent>>

gas_vars == <<gas_cfg, gas_call, gas_pc, gas_mode, gas_cur, gas_trace, gas_out>>

tx_vars == <<tx_call, tx_params, signed_transaction, sign_count, tx, stages, worker, pool,
             thread_call>>

vars == <<batch_vars, reg_vars, op_vars, gas_vars, tx_vars>>

\* ------------------------------------------------ first-success race
TaskDone(i) == tasks[i] \in {"ok", "exc", "cancelled"}

BatchIdle ==
    /\ execution_list = <<>>
    /\ exception_handler = {}
    /\ final_exception = "None"
    /\ tasks = <<>>
    /\ cancel_event = [is_set |-> FALSE, result_ |-> None]
    /\ not_completed_tasks = {}
    /\ dones = {}
    /\ exception = NoExc
    /\ terminal_exception = NoExc
    /\ backoffs = <<>>
    /\ sleeping = 0
    /\ batch_pc = "idle"
    /\ batch_out = NoOutcome

\* The loop goes on waiting after a non-soft failure.
AfterForIgnoresTerminal(ev, term, nc) ==
    IF ev.is_set \/ nc = {} THEN "cancel" ELSE "wait"

\* The loop goes on waiting when every task has failed softly.
AfterForWaitsOnNothing(ev, term, nc) ==
    IF ev.is_set \/ term # NoExc THEN "cancel" ELSE "wait"

\* The while loop's test, with the break that follows the for loop.
AfterFor(ev, term, nc) ==
    IF ev.is_set \/ term # NoExc \/ nc = {} THEN "cancel" ELSE "wait"

\* Lines 371-384: create the event, one task per coroutine, enter the loop.
CreateTasks(list, handler, final, sleeps) ==
    /\ batch_pc = "idle"
    /\ execution_list' = list
    /\ exception_handler' = handler
    /\ final_exception' = final
    /\ tasks' = [i \in 1..Len(list) |-> "running"]
    /\ cancel_event' = [is_set |-> FALSE, result_ |-> None]
    /\ not_completed_tasks' = 1..Len(list)
    /\ dones' = {}
    /\ exception' = NoExc
    /\ terminal_exception' = NoExc
    /\ backoffs' = sleeps
    /\ sleeping' = 0
    /\ batch_pc' = IF Len(list) = 0 THEN "cancel" ELSE "wait"
    /\ batch_out' = NoOutcome

\* A race whose coroutines never call sleep.
BatchStart(list, handler, final) ==
    CreateTasks(list, handler, final, [i \in 1..Len(list) |-> 0])

\* Lines 365-369: a task's coroutine finishes while the coordinator is
\* suspended.  The lock is never contended (its body does not suspend), so
\* set_result and set run in the same step.
exec_task(i) ==
    /\ batch_pc \in {"wait", "gather"}
    /\ sleeping = 0
    /\ i \in DOMAIN tasks
    /\ tasks[i] = "running"
    /\ backoffs[i] = 0
    /\ IF execution_list[i].kind = "ok"
         THEN /\ cancel_event' = [is_set |-> TRUE, result_ |-> execution_list[i].val]
              /\ tasks' = [tasks EXCEPT ![i] = "ok"]
         ELSE /\ cancel_event' = cancel_event
              /\ tasks' = [tasks EXCEPT ![i] = "exc"]
    /\ UNCHANGED <<execution_list, exception_handler, final_exception,
                   not_completed_tasks, dones, exception, terminal_exception,
                   backoffs, sleeping, batch_pc, batch_out>>
    /\ UNCHANGED <<reg_vars, op_vars, gas_vars, tx_vars>>

\* Lines 385-387: asyncio.wait(FIRST_COMPLETED) returns every task that is
\* done when the coordinator resumes.
wait_return ==
    /\ batch_pc = "wait"
    /\ sleeping = 0
    /\ \E i \in not_completed_tasks : TaskDone(i)
    /\ dones' = {i \in not_completed_tasks : TaskDone(i)}
    /\ not_completed_tasks' = {i \in not_completed_tasks : ~TaskDone(i)}
    /\ batch_pc' = "for"
    /\ UNCHANGED <<execution_list, exception_handler, final_exception, tasks,
                   cancel_event, exception, terminal_exception, backoffs, sleeping,
                   batch_out>>
    /\ UNCHANGED <<reg_vars, op_vars, gas_vars, tx_vars>>

\* Lines 389-401: one iteration of "for task in list(dones)" (a set: any
\* order), and, when the loop ends or breaks, the test that follows it.
for_task(t) ==
    /\ batch_pc = "for"
    /\ sleeping = 0
    /\ t \in dones
    /\ LET e == IF tasks[t] = "exc" THEN execution_list[t].exc ELSE NoExc
           soft == exception_handler # {} /\ IsInstance(e, exception_handler)
           exc1 == IF e # NoExc /\ soft THEN e ELSE exception
           term1 == IF e # NoExc /\ ~soft THEN e ELSE terminal_exception
           brk == e = NoExc /\ cancel_event.is_set
           left == IF brk THEN {} ELSE dones \ {t}
       IN /\ exception' = exc1
          /\ terminal_exception' = term1
          /\ dones' = left
          /\ batch_pc' = IF left = {}
                           THEN AfterFor(cancel_event, term1, not_completed_tasks)
                           ELSE "for"
    /\ UNCHANGED <<execution_list, exception_handler, final_exception, tasks,
                   cancel_event, not_completed_tasks, backoffs, sleeping, batch_out>>
    /\ UNCHANGED <<reg_vars, op_vars, gas_vars, tx_vars>>

\* Lines 404-406: cancel what is still running.
cancel_remaining ==
    /\ batch_pc = "cancel"
    /\ sleeping = 0
    /\ tasks' = [i \in DOMAIN tasks |->
                    IF i \in not_completed_tasks /\ ~TaskDone(i)
                      THEN "cancel_req" ELSE tasks[i]]
    /\ batch_pc' = "gather"
    /\ UNCHANGED <<execution_list, exception_handler, final_exception, cancel_event,
                   not_completed_tasks, dones, exception, terminal_exception,
                   backoffs, sleeping, batch_out>>
    /\ UNCHANGED <<reg_vars, op_vars, gas_vars, tx_vars>>

\* A cancelled task takes its CancelledError at its next step.
task_cancelled(i) ==
    /\ batch_pc = "gather"
    /\ sleeping = 0
    /\ i \in DOMAIN tasks
    /\ tasks[i] = "cancel_req"
    /\ tasks' = [tasks EXCEPT ![i] = "cancelled"]
    /\ UNCHANGED <<execution_list, exception_handler, final_exception, cancel_event,
                   not_completed_tasks, dones, exception, terminal_exception,
                   backoffs, sleeping, batch_pc, batch_out>>
    /\ UNCHANGED <<reg_vars, op_vars, gas_vars, tx_vars>>

\* Mutant of GatherReady: the coordinator does not drain the cancelled tasks.
GatherReadyNoDrain == TRUE

\* Line 407: gather(*tasks, return_exceptions=True) returns when every task
\* is done.
GatherReady == \A i \in DOMAIN tasks : TaskDone(i)

\* Mutant of Resolve: a remembered failure is raised before the event is read.
ResolveFailureFirst(ev, term, exc, final) ==
    IF term # NoExc THEN Raised(term)
    ELSE IF exc # NoExc THEN Raised(exc)
    ELSE IF ev.is_set THEN Returned(ev.result_)
    ELSE IF final # "None" THEN Raised(Exc(final, 0))
    ELSE Raised(Exc("RuntimeError", 0))

\* Lines 409-413: the precedence of the resolution.
Resolve(ev, term, exc, final) ==
    IF ev.is_set THEN Returned(ev.result_)
    ELSE IF term # NoExc THEN Raised(term)
    ELSE IF exc # NoExc THEN Raised(exc)
    ELSE IF final # "None" THEN Raised(Exc(final, 0))
    ELSE Raised(Exc("RuntimeError", 0))

gather_return ==
    /\ batch_pc = "gather"
    /\ sleeping = 0
    /\ GatherReady
    /\ batch_out' = Resolve(cancel_event, terminal_exception, exception, final_exception)
    /\ batch_pc' = "done"
    /\ UNCHANGED <<execution_list, exception_handler, final_exception, tasks,
                   cancel_event, not_completed_tasks, dones, exception,
                   terminal_exception, backoffs, sleeping>>
    /\ UNCHANGED <<reg_vars, op_vars, gas_vars, tx_vars>>

BatchStep ==
    \/ \E i \in DOMAIN tasks : exec_task(i)
    \/ wait_return
    \/ \E t \in dones : for_task(t)
    \/ cancel_remaining
    \/ \E i \in DOMAIN tasks : task_cancelled(i)
    \/ gather_return

\* The soft-error lists and final exceptions of the call sites.
SoftView == {"HTTPError", "ConnectionError", "ValueError"}

SoftBroadcast == {"TransactionValueError", "ValueError", "ConnectionError", "ReadTimeout",
                  "HTTPError"}

\* The confirmation race also takes a failed receipt for a soft error.
SoftConfirmWithFailedStatus ==
    {"TimeExhausted", "TransactionNotFound", "ConnectionError", "TransactionFailedStatus"}

SoftConfirm == {"TimeExhausted", "TransactionNotFound", "ConnectionError"}

\* ------------------------------------------------------ the registry
\* constants.py: the largest URL list a bracket may have.
MaxRPCInEachBracket == 3

\* A sub-bracket of n endpoints, named by their position in the URL list.
Bracket(n) == [i \in 1..n |-> i]

BracketSizes ==
    1..(IF MaxBracketSize < MaxRPCInEachBracket THEN MaxBracketSize
        ELSE MaxRPCInEachBracket)

\* The sub-bracket lists a role may hold after setup, with at least k of them.
BracketLists(k) ==
    UNION {[1..n -> {Bracket(m) : m \in BracketSizes}] : n \in k..MaxSubBrackets}

\* base lines 554-560: a ContractFunction as constructed, nothing bound.
ContractFunction(name, typ) == [name |-> name, typ |-> typ, args |-> None, kwargs |-> None]

\* async_multi_rpc_interface.py lines 39-49: one descriptor per function of
\* the ABI is set on functions; here a view function and a transaction
\* function.
Descriptors == <<ContractFunction("get", "view"), ContractFunction("set", "transaction")>>

FnInit ==
    /\ objects = Descriptors
    /\ returned = 0

\* Lines 63-64, 72-75: the facade as constructed, before setup.
NoRegistry ==
    /\ providers = [none |-> TRUE, view |-> <<>>, transaction |-> <<>>]
    /\ contracts = [view |-> <<>>, transaction |-> <<>>]
    /\ view_policy = "MostUpdated"
    /\ node_nonce = [view |-> <<>>, transaction |-> <<>>]
    /\ rpc_urls = <<>>
    /\ chain_id = None
    /\ setup_pc = "idle"
    /\ setup_out = NoOutcome
    /\ valid_providers = [view |-> <<>>, transaction |-> <<>>]
    /\ bracket_i = 0
    /\ FnInit

\* The URL lists of a role's sub-brackets, as rpc_urls holds them.
UrlsOf(role, lists) == [k \in DOMAIN lists |-> [role |-> role, urls |-> lists[k]]]

\* Lines 98-133: the facade after a setup that found every URL reachable.
SetupDone ==
    /\ rpc_urls = UrlsOf("view", providers.view) \o
                  UrlsOf("transaction", providers.transaction)
    /\ chain_id = <<1>>
    /\ setup_pc = "done"
    /\ setup_out = Returned(None)
    /\ valid_providers = [view |-> providers.view, transaction |-> providers.transaction]
    /\ bracket_i = Len(rpc_urls) + 1
    /\ FnInit

\* Always has the type: the bracket test that never fails.
DontHaveNever(typ) == FALSE

\* async_multi_rpc_interface.py line 82, base line 484:
\* providers.get(typ) is None.
DontHave(typ) == providers[typ] = <<>>

OpIdle ==
    /\ op_name = "none"
    /\ op_pc = "idle"
    /\ op_out = NoOutcome
    /\ sb = 0
    /\ gather_list = <<>>
    /\ view_log = <<>>
    /\ last_exception = NoExc
    /\ sent = {}

\* One request received by an endpoint.
Req(role, k, ep, kind, data) ==
    [role |-> role, sb |-> k, ep |-> ep, kind |-> kind, data |-> data]

\* The requests of one fan-out over a sub-bracket.
FanOut(role, k, eps, kind, data) ==
    {Req(role, k, eps[i], kind, data) : i \in DOMAIN eps}

BatchReset ==
    /\ execution_list' = <<>>
    /\ exception_handler' = {}
    /\ final_exception' = "None"
    /\ tasks' = <<>>
    /\ cancel_event' = [is_set |-> FALSE, result_ |-> None]
    /\ not_completed_tasks' = {}
    /\ dones' = {}
    /\ exception' = NoExc
    /\ terminal_exception' = NoExc
    /\ backoffs' = <<>>
    /\ sleeping' = 0
    /\ batch_pc' = "idle"
    /\ batch_out' = NoOutcome

\* ------------------------------------------------------ all-then-pick
RECURSIVE MaxBlockLoop(_, _, _, _)
\* Lines 204-207: the loop of max_block_finder, positions counted from 1.
MaxBlockLoop(results, i, max_block_number, max_index) ==
    IF i > Len(results) THEN max_index
    ELSE IF results[i][1] > max_block_number
      THEN MaxBlockLoop(results, i + 1, results[i][1], i)
      ELSE MaxBlockLoop(results, i + 1, max_block_number, max_index)

\* Mutant of max_block_finder: >= lets a later endpoint win a tie.
max_block_finder_last(results) ==
    LET best == CHOOSE i \in DOMAIN results :
                    /\ \A j \in DOMAIN results : results[j][1] <= results[i][1]
                    /\ \A j \in DOMAIN results : results[j][1] = results[i][1] => j <= i
    IN results[best][3][1]

\* Lines 201-208: results[max_index][2][0] of the first result with the
\* highest block number.
max_block_finder(results) ==
    results[MaxBlockLoop(results, 1, results[1][1], 1)][3][1]

\* Mutant of PyMax: the first result instead of the largest.
PyMaxFirst(results) == <<results[1][1]>>

\* The builtin max over a list of nonces.
PyMax(results) ==
    <<CHOOSE m \in {results[i][1] : i \in DOMAIN results} :
          \A i \in DOMAIN results : results[i][1] <= m>>

ApplySelector(result_selector, results) ==
    IF result_selector = "max_block_finder" THEN max_block_finder(results)
    ELSE PyMax(results)

SeqMap(list, field) == [i \in DOMAIN list |-> list[i][field]]

\* Lines 170-175: with no result, FailedOnAllRPCs quoting exceptions[0], an
\* IndexError when that list is empty too; otherwise what the selector picks.
PickOrFail(results, exceptions, result_selector) ==
    IF Len(results) = 0
      THEN IF Len(exceptions) = 0
             THEN Raised(Exc("IndexError", 0))
             ELSE Raised(ExcAbout("FailedOnAllRPCs", exceptions[1]))
      ELSE Returned(ApplySelector(result_selector, results))

\* Lines 160-175: run every coroutine, keep results and exceptions in the
\* order of the execution list, select among the results.
gather_most_updated(list, result_selector) ==
    LET results == SeqMap(SelectSeq(list, LAMBDA o : o.kind = "ok"), "val")
        exceptions == SeqMap(SelectSeq(list, LAMBDA o : o.kind = "raise"), "exc")
    IN PickOrFail(results, exceptions, result_selector)

\* Lines 176-181: the selector applied to the winner of the race.
gather_first_success(out, result_selector) ==
    IF out.kind = "return"
      THEN Returned(ApplySelector(result_selector, <<out.val>>))
      ELSE out

\* Lines 218-222, 232-237: return the sub-bracket's answer, or go to the
\* next sub-bracket on Web3InterfaceException or a timeout, or raise.  The
\* operation resumes at ret, where its caller takes the outcome.
AfterSubBracket(r, n, again, ret) ==
    IF r.kind = "raise" /\ IsInstance(r.exc, {"Web3InterfaceException", "TimeoutError"})
      THEN IF sb < n
             THEN /\ sb' = sb + 1
                  /\ op_pc' = again
                  /\ op_out' = op_out
             ELSE /\ op_out' = Raised(Exc("Web3InterfaceException", 0))
                  /\ op_pc' = ret
                  /\ sb' = sb
      ELSE /\ op_out' = r
           /\ op_pc' = ret
           /\ sb' = sb

\* ------------------------------------------------------ the view read
ViewExcNames == {"ConnectionError", "ContractLogicError"}

\* What a view endpoint may answer to a multicall: (block, _, [decoded]),
\* the decoded value <<i>> being endpoint i's own, or an exception.
ViewOutcomes(i) ==
    {Ok(<<b, 0, <<<<i>>>>>>) : b \in 1..MaxBlock} \cup {Raise(n, i) : n \in ViewExcNames}

ViewLists(n) ==
    {l \in [1..n -> UNION {ViewOutcomes(i) : i \in 1..n}] :
        \A i \in 1..n : l[i] \in ViewOutcomes(i)}

\* async_multi_rpc_interface.py lines 82-87: ContractFunction.call of a view.
\* contracts['view'] is still None after a setup that was left before its
\* handles were made, and line 210 then fails on None.values().
call_view ==
    /\ op_pc = "idle"
    /\ op_name' = "view"
    /\ IF providers.none
         THEN /\ op_out' = Raised(Exc("AttributeError", 0))
              /\ op_pc' = "done"
              /\ sb' = sb
         ELSE IF DontHave("view")
           THEN /\ op_out' = Raised(Exc("DontHaveThisRpcType", 0))
                /\ op_pc' = "done"
                /\ sb' = sb
         ELSE IF contracts.view = <<>>
           THEN /\ op_out' = Raised(Exc("AttributeError", 0))
                /\ op_pc' = "done"
                /\ sb' = sb
           ELSE /\ op_pc' = "view"
                /\ sb' = 1
                /\ op_out' = op_out
    /\ UNCHANGED <<gather_list, view_log, last_exception, sent, batch_vars, reg_vars, gas_vars, tx_vars>>

\* Lines 211-221 under MostUpdated: one sub-bracket of the read.
view_most_updated ==
    /\ op_pc = "view"
    /\ view_policy = "MostUpdated"
    /\ \E list \in ViewLists(Len(contracts.view[sb])) :
          /\ gather_list' = list
          /\ view_log' = Append(view_log, list)
          /\ last_exception' = last_exception
          /\ sent' = sent \cup FanOut("view", sb, contracts.view[sb], "call", None)
          /\ AfterSubBracket(gather_most_updated(list, "max_block_finder"),
                             Len(contracts.view), "view", "done")
    /\ UNCHANGED <<op_name, batch_vars, reg_vars, gas_vars, tx_vars>>

\* Lines 211-219 under FirstSuccess: the sub-bracket's race starts.
view_first_success ==
    /\ op_pc = "view"
    /\ view_policy = "FirstSuccess"
    /\ \E list \in ViewLists(Len(contracts.view[sb])) :
          /\ gather_list' = list
          /\ view_log' = Append(view_log, list)
          /\ last_exception' = last_exception
          /\ sent' = sent \cup FanOut("view", sb, contracts.view[sb], "call", None)
          /\ BatchStart(list, SoftView, "FailedOnAllRPCs")
    /\ op_pc' = "view_race"
    /\ UNCHANGED <<op_name, op_out, sb, reg_vars, gas_vars, tx_vars>>

\* Lines 177-181, 219-222: the race is over.
view_race_done ==
    /\ op_pc = "view_race"
    /\ batch_pc = "done"
    /\ AfterSubBracket(gather_first_success(batch_out, "max_block_finder"),
                       Len(contracts.view), "view", "done")
    /\ BatchReset
    /\ UNCHANGED <<op_name, gather_list, view_log, last_exception, sent, reg_vars, gas_vars, tx_vars>>

\* ------------------------------------------------------ the raw queries
RawQueries == {"get_tx_receipt", "get_block", "get_block_number"}

\* Lines 492, 514, 535: the exceptions a raw query treats as soft.
SoftRaw(q) ==
    {"HTTPError", "ConnectionError", "ReadTimeout", "ValueError", "TimeExhausted"} \cup
    (IF q = "get_tx_receipt" THEN {"TransactionNotFound"}
     ELSE IF q = "get_block" THEN {"BlockNotFound"} ELSE {})

\* Lines 501, 523, 544: the final exception of a raw query's race.
FinalRaw(q) == IF q = "get_tx_receipt" THEN "TransactionFailedStatus" ELSE "GetBlockFailed"

\* What endpoint i of a sub-bracket may answer to a raw query: its own
\* answer, a soft error, or an error outside the query's soft list.
RawOutcomes(q, i) ==
    {Ok(<<q, i>>), Raise("ConnectionError", i), Raise("TimeoutError", i)}

\* Lines 496, 518, 539: the execution list of a sub-bracket of n endpoints.
\* get_block_number hands each endpoint's method to a thread, whose call
\* completes with the coroutine of the request, not yet sent.
RawLists(q, n) ==
    IF q = "get_block_number"
      THEN {[i \in 1..n |-> Ok(<<"coroutine", i>>)]}
      ELSE {l \in [1..n -> UNION {RawOutcomes(q, i) : i \in 1..n}] :
               \A i \in 1..n : l[i] \in RawOutcomes(q, i)}

\* Lines 485, 489, 512, 533: the query is checked against the registry.
raw_query ==
    /\ op_pc = "idle"
    /\ \E q \in RawQueries : op_name' = q
    /\ IF providers.none
         THEN /\ op_out' = Raised(Exc("AttributeError", 0))
              /\ op_pc' = "done"
              /\ sb' = sb
         ELSE IF DontHave("view")
           THEN /\ op_out' = Raised(Exc("DontHaveThisRpcType", 0))
                /\ op_pc' = "done"
                /\ sb' = sb
           ELSE /\ op_pc' = "raw"
                /\ sb' = 1
                /\ op_out' = op_out
    /\ UNCHANGED <<gather_list, view_log, last_exception, sent>>
    /\ UNCHANGED <<batch_vars, reg_vars, gas_vars, tx_vars>>

\* Lines 495-502, 517-524, 538-545: the race over one view sub-bracket.
raw_sub_bracket ==
    /\ op_pc = "raw"
    /\ \E list \in RawLists(op_name, Len(providers.view[sb])) :
          /\ gather_list' = list
          /\ sent' = IF op_name = "get_block_number" THEN sent
                     ELSE sent \cup FanOut("view", sb, providers.view[sb], op_name, None)
          /\ BatchStart(list, SoftRaw(op_name), FinalRaw(op_name))
    /\ op_pc' = "raw_race"
    /\ UNCHANGED <<op_name, op_out, sb, view_log, last_exception, reg_vars, gas_vars, tx_vars>>

\* Lines 497-508: return the sub-bracket's answer; on a soft error remember
\* it and go to the next sub-bracket, raising it after the last one; let
\* any other exception through.
RawAfter(r, n) ==
    IF r.kind = "raise" /\ IsInstance(r.exc, SoftRaw(op_name))
      THEN /\ last_exception' = r.exc
           /\ IF sb < n
                THEN /\ sb' = sb + 1
                     /\ op_pc' = "raw"
                     /\ op_out' = op_out
                ELSE /\ op_out' = Raised(r.exc)
                     /\ op_pc' = "done"
                     /\ sb' = sb
      ELSE /\ op_out' = r
           /\ op_pc' = "done"
           /\ sb' = sb
           /\ last_exception' = last_exception

\* Lines 497-506, and 540-546 for get_block_number, which awaits the
\* coroutine the race returned: only then is the request sent, to the one
\* endpoint whose thread finished first.
raw_race_done ==
    /\ op_pc = "raw_race"
    /\ batch_pc = "done"
    /\ IF op_name = "get_block_number" /\ batch_out.kind = "return"
         THEN \E o \in RawOutcomes(op_name, batch_out.val[2]) :
                 /\ sent' = sent \cup {Req("view", sb, providers.view[sb][batch_out.val[2]],
                                           op_name, None)}
                 /\ RawAfter(IF o.kind = "ok" THEN Returned(o.val) ELSE Raised(o.exc),
                             Len(providers.view))
         ELSE /\ sent' = sent
              /\ RawAfter(batch_out, Len(providers.view))
    /\ BatchReset
    /\ UNCHANGED <<op_name, gather_list, view_log, reg_vars, gas_vars, tx_vars>>

\* --------------------------------------------------- nonce acquisition
\* Line 227: providers.get('view') or providers['transaction'].
NonceRole == IF providers.view # <<>> THEN "view" ELSE "transaction"

\* What the endpoints of a sub-bracket may answer to get_transaction_count:
\* each its node's nonce, or an exception.
NonceLists(role, k) ==
    LET n == Len(providers[role][k])
        outs(i) == {Ok(<<node_nonce[role][k][i]>>), Raise("ConnectionError", i)}
    IN {l \in [1..n -> UNION {outs(i) : i \in 1..n}] : \A i \in 1..n : l[i] \in outs(i)}

\* Where _get_nonce returns to: _call_tx_function line 464, or the caller.
NonceReturn == IF op_name = "tx" THEN "nonce_returned" ELSE "done"

\* Lines 224-228: _get_nonce picks the role it will query.
NonceEnter(ret) ==
    IF providers.none
      THEN /\ op_out' = Raised(Exc("AttributeError", 0))
           /\ op_pc' = ret
           /\ sb' = sb
      ELSE IF providers[NonceRole] = <<>>
        THEN /\ op_out' = Raised(Exc("KeyError", 0))
             /\ op_pc' = ret
             /\ sb' = sb
        ELSE /\ op_pc' = "nonce"
             /\ sb' = 1
             /\ op_out' = op_out

get_nonce ==
    /\ op_pc = "idle"
    /\ op_name' = "nonce"
    /\ NonceEnter("done")
    /\ UNCHANGED <<gather_list, view_log, last_exception, sent, batch_vars, reg_vars, gas_vars, tx_vars>>

\* Lines 228-237: one sub-bracket of the nonce query, always all-then-pick.
nonce_sub_bracket ==
    /\ op_pc = "nonce"
    /\ \E list \in NonceLists(NonceRole, sb) :
          /\ gather_list' = list
          /\ view_log' = view_log
          /\ last_exception' = last_exception
          /\ sent' = sent \cup FanOut(NonceRole, sb, providers[NonceRole][sb],
                                      "get_transaction_count", None)
          /\ AfterSubBracket(gather_most_updated(list, "max"),
                             Len(providers[NonceRole]), "nonce", NonceReturn)
    /\ UNCHANGED <<op_name, batch_vars, reg_vars, gas_vars, tx_vars>>

\* ---------------------------------------------------- the gas estimator
Priorities == {"low", "medium", "high"}

Methods == {"GAS_API_PROVIDER", "RPC", "FIXED", "CUSTOM"}

\* gas_estimation.py lines 60-65.
method_sorted_priority == <<"GAS_API_PROVIDER", "RPC", "FIXED", "CUSTOM">>

\* Web3.to_wei(amount, "GWei").
to_wei(gwei) == gwei * WeiScale

\* gas_estimation.py lines 27-29, 49-53: every multiplier defaults to 1.
DefaultMultipliers == [p \in Priorities |-> 1]

\* The estimator the facade builds for itself: base lines 103-108.
DefaultEstimator(n) ==
    [default_method |-> "None", multipliers |-> DefaultMultipliers, dev_env |-> FALSE,
     rpc_only |-> FALSE, fixed_gas |-> 1, n_providers |-> n]

GasIdle ==
    /\ gas_cfg = DefaultEstimator(0)
    /\ gas_call = [method |-> "None", priority |-> "low", gas_upper_bound |-> 0]
    /\ gas_pc = "idle"
    /\ gas_mode = "none"
    /\ gas_cur = "None"
    /\ gas_trace = <<>>
    /\ gas_out = NoOutcome

\* get_gas_price has returned to its caller: nothing of the call is left.
GasReset ==
    /\ gas_call' = [method |-> "None", priority |-> "low", gas_upper_bound |-> 0]
    /\ gas_pc' = "idle"
    /\ gas_mode' = "none"
    /\ gas_cur' = "None"
    /\ gas_trace' = <<>>
    /\ gas_out' = NoOutcome
    /\ gas_cfg' = gas_cfg

\* What the gas API may do with the GET: the request fails, the body is not
\* JSON, a key is missing, a fee is not a number, or a quote in GWei.
ApiResponses ==
    {[kind |-> k, max_fee |-> 0, max_priority_fee |-> 0] :
        k \in {"transport", "bad_json", "no_key", "bad_number"}}
    \cup {[kind |-> "quote", max_fee |-> f, max_priority_fee |-> 1] : f \in 1..(MaxGas + 1)}

\* Mutant of _get_gas_from_api: the ceiling is not enforced.
get_gas_from_api_no_ceiling(resp, priority, gas_upper_bound, dev_env) ==
    IF resp.kind = "quote"
      THEN Returned([maxFeePerGas |-> to_wei(resp.max_fee),
                     maxPriorityFeePerGas |-> to_wei(resp.max_priority_fee)])
      ELSE Raised(Exc("FailedToGetGasPrice", 0))

\* gas_estimation.py lines 73-98.  The handler of line 95 reads
\* resp.status_code unless DevEnv is set, and resp is None when the request
\* itself failed.
get_gas_from_api(resp, priority, gas_upper_bound, dev_env) ==
    CASE resp.kind = "transport" ->
           IF dev_env THEN Raised(Exc("FailedToGetGasPrice", 0))
           ELSE Raised(Exc("AttributeError", 0))
      [] resp.kind \in {"bad_json", "no_key"} -> Raised(Exc("FailedToGetGasPrice", 0))
      [] resp.kind = "bad_number" -> Raised(Exc("InvalidOperation", 0))
      [] OTHER ->
           IF resp.max_fee > gas_upper_bound
             THEN Raised(Exc("OutOfRangeTransactionFee", 0))
             ELSE Returned([maxFeePerGas |-> to_wei(resp.max_fee),
                            maxPriorityFeePerGas |-> to_wei(resp.max_priority_fee)])

\* What one endpoint may answer to eth.gas_price: a price in wei at the
\* ceiling or just above it, a connection error, or an HTTP error response.
RpcAnswers(gas_upper_bound) ==
    {[kind |-> "price", price |-> to_wei(gas_upper_bound) + d] : d \in {0, 1}}
    \cup {[kind |-> k, price |-> 0] : k \in {"ConnectionError", "ClientResponseError"}}

RpcAnswerLists(n, gas_upper_bound) == [1..n -> RpcAnswers(gas_upper_bound)]

\* The ceiling test with < in place of <=.
WithinCeilingStrict(price, gas_upper_bound) == price < to_wei(gas_upper_bound)

\* gas_estimation.py line 109: gas_price / 1e9 <= gas_upper_bound.
WithinCeiling(price, gas_upper_bound) == price <= to_wei(gas_upper_bound)

RECURSIVE RpcLoop(_, _, _, _)
\* gas_estimation.py lines 104-117: the loop over the providers.  gas_price is
\* 0 while no endpoint has reported a price (None in the code).
RpcLoop(answers, i, gas_price, gas_upper_bound) ==
    IF i > Len(answers)
      THEN [gas_price |-> gas_price, found |-> FALSE, raised |-> FALSE, asked |-> i - 1]
    ELSE IF answers[i].kind = "price"
      THEN IF WithinCeiling(answers[i].price, gas_upper_bound)
             THEN [gas_price |-> answers[i].price, found |-> TRUE, raised |-> FALSE,
                   asked |-> i]
             ELSE RpcLoop(answers, i + 1, answers[i].price, gas_upper_bound)
    ELSE IF answers[i].kind = "ClientResponseError"
      THEN [gas_price |-> gas_price, found |-> FALSE, raised |-> TRUE, asked |-> i]
    ELSE RpcLoop(answers, i + 1, gas_price, gas_upper_bound)

\* gas_estimation.py lines 100-125.
get_gas_from_rpc(answers, priority, gas_upper_bound, multipliers) ==
    LET l == RpcLoop(answers, 1, 0, gas_upper_bound)
    IN IF l.raised THEN Raised(Exc("ClientResponseError", l.asked))
       ELSE IF l.gas_price = 0 THEN Raised(Exc("FailedToGetGasPrice", 0))
       ELSE IF ~l.found THEN Raised(Exc("OutOfRangeTransactionFee", 0))
       ELSE Returned([gasPrice |-> l.gas_price * multipliers[priority]])

\* gas_estimation.py lines 127-131.
get_fixed_value(fixed_gas, priority, gas_upper_bound, multipliers) ==
    IF fixed_gas > gas_upper_bound
      THEN Raised(Exc("OutOfRangeTransactionFee", 0))
      ELSE Returned([gasPrice |-> to_wei(fixed_gas * multipliers[priority])])

\* gas_estimation.py lines 133-134: NotImplemented is not callable.
custom_gas_estimation == Raised(Exc("TypeError", 0))

\* Mutant of GasMode: the estimator's default method is not consulted.
GasModeNoDefault(method, default_method, dev_env, rpc_only) ==
    IF method # "None" THEN <<"pinned", method>>
    ELSE IF dev_env \/ rpc_only THEN <<"rpc_only", "RPC">>
    ELSE <<"cascade", method_sorted_priority[1]>>

\* gas_estimation.py lines 139, 146-148: which methods get_gas_price will run.
GasMode(method, default_method, dev_env, rpc_only) ==
    IF method # "None" THEN <<"pinned", method>>
    ELSE IF default_method # "None" THEN <<"pinned", default_method>>
    ELSE IF dev_env \/ rpc_only THEN <<"rpc_only", "RPC">>
    ELSE <<"cascade", method_sorted_priority[1]>>

\* gas_estimation.py lines 136-148: get_gas_price is entered.
GasStart(gas_upper_bound, priority, method) ==
    /\ gas_pc = "idle"
    /\ gas_call' = [method |-> method, priority |-> priority,
                    gas_upper_bound |-> gas_upper_bound]
    /\ LET m == GasMode(method, gas_cfg.default_method, gas_cfg.dev_env, gas_cfg.rpc_only)
       IN /\ gas_mode' = m[1]
          /\ gas_cur' = m[2]
    /\ gas_pc' = "run"
    /\ gas_trace' = <<>>
    /\ gas_out' = NoOutcome
    /\ UNCHANGED gas_cfg

Position(method) == CHOOSE k \in 1..4 : method_sorted_priority[k] = method

\* gas_estimation.py lines 140-157: what follows the method that just ran.
GasAfter(env, result) ==
    /\ gas_trace' = Append(gas_trace, [method |-> gas_cur, env |-> env, result |-> result])
    /\ IF /\ gas_mode = "cascade"
          /\ result.kind = "raise"
          /\ IsInstance(result.exc, {"FailedToGetGasPrice", "OutOfRangeTransactionFee"})
         THEN IF Position(gas_cur) < Len(method_sorted_priority)
                THEN /\ gas_cur' = method_sorted_priority[Position(gas_cur) + 1]
                     /\ UNCHANGED <<gas_pc, gas_out>>
                ELSE /\ gas_out' = Raised(Exc("FailedToGetGasPrice", 0))
                     /\ gas_pc' = "done"
                     /\ gas_cur' = gas_cur
         ELSE /\ gas_out' = result
              /\ gas_pc' = "done"
              /\ gas_cur' = gas_cur
    /\ UNCHANGED <<gas_cfg, gas_call, gas_mode, batch_vars, reg_vars, op_vars, tx_vars>>

gas_api ==
    /\ gas_pc = "run"
    /\ gas_cur = "GAS_API_PROVIDER"
    /\ \E resp \in ApiResponses :
          GasAfter(resp, get_gas_from_api(resp, gas_call.priority,
                                          gas_call.gas_upper_bound, gas_cfg.dev_env))

gas_rpc ==
    /\ gas_pc = "run"
    /\ gas_cur = "RPC"
    /\ \E answers \in RpcAnswerLists(gas_cfg.n_providers, gas_call.gas_upper_bound) :
          GasAfter(answers, get_gas_from_rpc(answers, gas_call.priority,
                                             gas_call.gas_upper_bound,
                                             gas_cfg.multipliers))

gas_fixed ==
    /\ gas_pc = "run"
    /\ gas_cur = "FIXED"
    /\ GasAfter(<<>>, get_fixed_value(gas_cfg.fixed_gas, gas_call.priority,
                                      gas_call.gas_upper_bound, gas_cfg.multipliers))

gas_custom ==
    /\ gas_pc = "run"
    /\ gas_cur = "CUSTOM"
    /\ GasAfter(<<>>, custom_gas_estimation)

GasStep == gas_api \/ gas_rpc \/ gas_fixed \/ gas_custom

\* Lines 348 and 353: the retries a confirmation worker allows itself.
ConErrRetries == 5

TxErrRetries == 1

\* What an endpoint may answer to one wait_for_transaction_receipt.
ReceiptResponses ==
    {"status1", "status0", "ConnectionError", "TimeExhausted", "TransactionNotFound"}

\* Gives up on connection errors one retry later.
ConErrExhaustedLate(con_err_count) == con_err_count > ConErrRetries

\* Line 348.
ConErrExhausted(con_err_count) == con_err_count >= ConErrRetries

\* Line 353.
TxErrExhausted(tx_err_count) == tx_err_count >= TxErrRetries

\* The worker's state when it has made attempts waits, the latest with the
\* given timeout, after sleeps backoffs, and ended with out (kind "none"
\* while it is still waiting for an answer).
WorkerAt(out, attempts, con_err_count, tx_err_count, timeout, sleeps) ==
    [out |-> out, attempts |-> attempts, con_err_count |-> con_err_count,
     tx_err_count |-> tx_err_count, timeout |-> timeout, sleeps |-> sleeps]

RECURSIVE WaitLoop(_, _, _, _, _, _, _)
\* Lines 339-356: the loop of _wait_and_get_tx_receipt over the answers the
\* endpoint gives to the successive waits, the timeout counted in units of
\* the caller's wait_for_receipt.
WaitLoop(provider, responses, pos, con_err_count, tx_err_count, timeout, sleeps) ==
    IF pos > Len(responses)
      THEN WorkerAt(NoOutcome, pos - 1, con_err_count, tx_err_count, timeout, sleeps)
    ELSE LET r == responses[pos]
             ends(out) == WorkerAt(out, pos, con_err_count, tx_err_count, timeout, sleeps)
         IN IF r = "status1"
              THEN ends(Ok(<<provider, <<"receipt", 1>>>>))
            ELSE IF r = "status0"
              THEN ends(Raise("TransactionFailedStatus", provider))
            ELSE IF r = "ConnectionError"
              THEN IF ConErrExhausted(con_err_count)
                     THEN ends(Raise(r, provider))
                     ELSE WaitLoop(provider, responses, pos + 1, con_err_count + 1,
                                   tx_err_count, timeout, sleeps + 1)
            ELSE IF TxErrExhausted(tx_err_count)
              THEN ends(Raise(r, provider))
              ELSE WaitLoop(provider, responses, pos + 1, con_err_count,
                            tx_err_count + 1, timeout * 2, sleeps)

\* Lines 334-338: the worker of one endpoint, from its first wait.
wait_and_get_tx_receipt(provider, responses) ==
    WaitLoop(provider, responses, 1, 0, 0, 1, 0)

\* No reduction is in progress.
PoolIdle ==
    [pc |-> "idle", execution_list |-> <<>>, result_selector |-> "None", finished |-> {},
     i |-> 0, results |-> <<>>, exceptions |-> <<>>, out |-> NoOutcome]

\* No synchronous operation has been called.
ThreadIdle ==
    [pc |-> "idle", running_loop |-> FALSE, func |-> "None", inner |-> NoOutcome,
     result |-> None, out |-> NoOutcome]

\* ------------------------------------------------ the transaction call
TxIdle ==
    /\ tx_call = None
    /\ tx_params = None
    /\ signed_transaction = None
    /\ sign_count = 0
    /\ tx = None
    /\ stages = <<>>
    /\ worker = [responses |-> <<>>, result |-> wait_and_get_tx_receipt(1, <<>>)]
    /\ pool = PoolIdle
    /\ thread_call = ThreadIdle

\* Account.sign_transaction: the raw bytes and the hash are determined by the
\* transaction and the key.
\* Signs each sub-bracket's payload over a nonce of its own.
sign_transaction_fresh_nonce(transaction, private_key) ==
    LET t == [transaction EXCEPT !.nonce = <<@, sb>>]
    IN [raw_transaction |-> <<"raw", t, private_key>>,
        hash |-> <<"hash", t, private_key>>]

sign_transaction(transaction, private_key) ==
    [raw_transaction |-> <<"raw", transaction, private_key>>,
     hash |-> <<"hash", transaction, private_key>>]

\* Line 431: Web3.to_hex of the hash bytes, the "0x"-prefixed hex string.
to_hex(bytes) == <<"0x", bytes>>

\* Waits for the receipt whatever the caller asked.
WaitsAlways(wait_for_receipt) == TRUE

\* Line 448: "if not wait_for_receipt" is passed when the argument is truthy.
Waits(wait_for_receipt) == wait_for_receipt

\* Lines 243-250: the parameters of the transaction to build.
TxParams(nonce, gas_params) == [nonce |-> nonce, gas_params |-> gas_params]

\* What estimate_gas may do at the first endpoint of the sub-bracket; it is
\* called only when gas estimation is enabled (lines 269-271).
EstimateOutcomes(enable_gas_estimation) ==
    IF enable_gas_estimation THEN {"ok", "ConnectionError", "ContractLogicError"}
    ELSE {"ok"}

\* What the endpoints of a sub-bracket may answer to send_raw_transaction:
\* the transaction's hash, or an exception (lines 278-310).
SendLists(k, signed) ==
    LET n == Len(providers.transaction[k])
        outs(i) == {Ok(<<providers.transaction[k][i], signed.hash>>),
                    Raise("ConnectionError", i), Raise("ValueError", i)}
    IN {l \in [1..n -> UNION {outs(i) : i \in 1..n}] : \A i \in 1..n : l[i] \in outs(i)}

\* The answers an endpoint gives to the waits of its worker during a call:
\* a receipt at once or after one timeout, or two timeouts.
ConfirmAnswers ==
    LET kinds == {"status1", "status0", "TimeExhausted"}
    IN {<<a>> : a \in kinds} \cup {<<a, b>> : a \in kinds, b \in kinds}

\* What _wait_and_get_tx_receipt ends with at each endpoint of a
\* sub-bracket (lines 334-356): the receipt, TransactionFailedStatus for a
\* receipt whose status is not 1, or the error its retries ended with.
ReceiptLists(k) ==
    LET n == Len(providers.transaction[k])
        ends(i) == {wait_and_get_tx_receipt(providers.transaction[k][i], rs).out :
                       rs \in ConfirmAnswers}
        outs(i) == {o \in ends(i) : o.kind # "none"}
    IN {l \in [1..n -> UNION {outs(i) : i \in 1..n}] : \A i \in 1..n : l[i] \in outs(i)}

\* Mutant of StageGate: a failed stage does not stop the call.
StageGateOpen(r) == TRUE

\* Lines 464-467: an exception of _get_nonce or _get_tx_params leaves
\* _call_tx_function; only a returned value lets the next stage start.
StageGate(r) == r.kind = "return"

\* Every exception of __call_tx leaves _call_tx_function at once.
AfterCallTxNoEscalation(r, n) ==
    /\ op_out' = r
    /\ op_pc' = "done"
    /\ sb' = sb

\* Lines 472-481: what _call_tx_function does with the outcome of __call_tx
\* at the current sub-bracket.
AfterCallTx(r, n) ==
    IF r.kind = "raise" /\ IsInstance(r.exc, {"TransactionFailedStatus",
                                              "TransactionValueError"})
      THEN /\ op_out' = r
           /\ op_pc' = "done"
           /\ sb' = sb
    ELSE IF r.kind = "raise" /\ IsInstance(r.exc, {"ConnectionError", "ReadTimeout",
                                                   "TimeExhausted", "TransactionNotFound",
                                                   "FailedOnAllRPCs"})
      THEN IF sb < n
             THEN /\ sb' = sb + 1
                  /\ op_pc' = "sign"
                  /\ op_out' = op_out
             ELSE /\ op_out' = Raised(Exc("Web3InterfaceException", 0))
                  /\ op_pc' = "done"
                  /\ sb' = sb
    ELSE /\ op_out' = r
         /\ op_pc' = "done"
         /\ sb' = sb

\* The call's inputs.
TxCalls ==
    [wait_for_receipt : BOOLEAN, enable_gas_estimation : BOOLEAN,
     gas_upper_bound : {MaxGas}, priority : {"low"},
     gas_estimation_method : {"None", "RPC"}, private_key : {"key"}]

\* async_multi_rpc_interface.py lines 82-101, base lines 460-464: the call
\* is checked against the registry and nonce acquisition starts.
call_tx_function ==
    /\ op_pc = "idle"
    /\ op_name' = "tx"
    /\ \E c \in TxCalls : tx_call' = c
    /\ IF providers.none
         THEN /\ op_out' = Raised(Exc("AttributeError", 0))
              /\ op_pc' = "done"
              /\ sb' = sb
              /\ stages' = stages
         ELSE IF DontHave("transaction")
           THEN /\ op_out' = Raised(Exc("DontHaveThisRpcType", 0))
                /\ op_pc' = "done"
                /\ sb' = sb
                /\ stages' = stages
           ELSE /\ NonceEnter("nonce_returned")
                /\ stages' = Append(stages, <<"nonce", 0, "start">>)
    /\ UNCHANGED <<gather_list, view_log, last_exception, sent, tx_params, signed_transaction, sign_count, tx>>
    /\ UNCHANGED <<batch_vars, reg_vars, gas_vars>>
    /\ UNCHANGED <<worker, pool, thread_call>>

\* Lines 464-467, 242: the nonce is back; fee estimation starts.  The
\* estimator is the one setup builds after it has the chain id (lines
\* 101-108); without it line 242 fails on None.get_gas_price.
tx_get_tx_params ==
    /\ op_name = "tx"
    /\ op_pc = "nonce_returned"
    /\ IF StageGate(op_out) /\ chain_id = None
         THEN /\ op_out' = Raised(Exc("AttributeError", 0))
              /\ op_pc' = "done"
              /\ stages' = stages \o <<<<"nonce", 0, op_out.kind>>, <<"fee", 0, "start">>,
                                       <<"fee", 0, "raise">>>>
              /\ UNCHANGED <<tx_params, gas_vars>>
       ELSE IF StageGate(op_out)
         THEN /\ tx_params' = TxParams(op_out.val, None)
              /\ GasStart(tx_call.gas_upper_bound, tx_call.priority,
                          tx_call.gas_estimation_method)
              /\ op_pc' = "fee"
              /\ op_out' = NoOutcome
              /\ stages' = stages \o <<<<"nonce", 0, op_out.kind>>, <<"fee", 0, "start">>>>
         ELSE /\ op_pc' = "done"
              /\ stages' = Append(stages, <<"nonce", 0, op_out.kind>>)
              /\ UNCHANGED <<tx_params, op_out, gas_vars>>
    /\ UNCHANGED <<op_name, sb, gather_list, view_log, last_exception, sent, tx_call, signed_transaction,
                   sign_count, tx>>
    /\ UNCHANGED <<batch_vars, reg_vars>>
    /\ UNCHANGED <<worker, pool, thread_call>>

\* Lines 242-250, 465-469: the fee parameters are back; the loop over the
\* transaction sub-brackets starts.
tx_fee_done ==
    /\ op_name = "tx"
    /\ op_pc = "fee"
    /\ gas_pc = "done"
    /\ IF StageGate(gas_out)
         THEN /\ tx_params' = TxParams(tx_params.nonce, gas_out.val)
              /\ op_pc' = "sign"
              /\ sb' = 1
              /\ op_out' = op_out
         ELSE /\ op_out' = gas_out
              /\ op_pc' = "done"
              /\ UNCHANGED <<tx_params, sb>>
    /\ stages' = Append(stages, <<"fee", 0, gas_out.kind>>)
    /\ GasReset
    /\ UNCHANGED <<op_name, gather_list, view_log, last_exception, sent, tx_call, signed_transaction, sign_count,
                   tx>>
    /\ UNCHANGED <<batch_vars, reg_vars>>
    /\ UNCHANGED <<worker, pool, thread_call>>

\* Lines 427-431, 260-276: __call_tx is entered for the sub-bracket and
\* assembles and signs the transaction with the sub-bracket's first handle
\* and endpoint.
tx_sign ==
    /\ op_name = "tx"
    /\ op_pc = "sign"
    /\ IF contracts.transaction[sb] = <<>>
         THEN \* line 428: contracts[0] on a sub-bracket that got no handle
              /\ AfterCallTx(Raise("IndexError", 0), Len(providers.transaction))
              /\ signed_transaction' = None
              /\ UNCHANGED <<sign_count, sent, stages>>
         ELSE /\ sign_count' = sign_count + 1
              /\ sent' = sent \cup
                    (IF tx_call.enable_gas_estimation
                       THEN {Req("transaction", sb, providers.transaction[sb][1],
                                 "estimate_gas", <<tx_params>>)}
                       ELSE {})
              /\ \E e \in EstimateOutcomes(tx_call.enable_gas_estimation) :
                    IF e = "ok"
                      THEN /\ signed_transaction' =
                                  sign_transaction(tx_params, tx_call.private_key)
                           /\ op_pc' = "broadcast"
                           /\ stages' = stages \o <<<<"sign", sb, "start">>,
                                                     <<"sign", sb, "return">>>>
                           /\ UNCHANGED <<op_out, sb>>
                      ELSE /\ signed_transaction' = None
                           /\ AfterCallTx(Raise(e, 1), Len(providers.transaction))
                           /\ stages' = stages \o <<<<"sign", sb, "start">>,
                                                     <<"sign", sb, "raise">>>>
    /\ UNCHANGED <<op_name, gather_list, view_log, last_exception, tx_call, tx_params, tx>>
    /\ UNCHANGED <<batch_vars, reg_vars, gas_vars>>
    /\ UNCHANGED <<worker, pool, thread_call>>

\* Lines 434-441: the signed payload is sent to every endpoint of the
\* sub-bracket and the broadcast race starts.
tx_broadcast ==
    /\ op_name = "tx"
    /\ op_pc = "broadcast"
    /\ \E list \in SendLists(sb, signed_transaction) :
          /\ gather_list' = list
          /\ view_log' = view_log
          /\ last_exception' = last_exception
          /\ BatchStart(list, SoftBroadcast, "FailedOnAllRPCs")
    /\ sent' = sent \cup FanOut("transaction", sb, providers.transaction[sb],
                                "send_raw_transaction",
                                signed_transaction.raw_transaction)
    /\ op_pc' = "broadcast_race"
    /\ stages' = Append(stages, <<"broadcast", sb, "start">>)
    /\ UNCHANGED <<op_name, op_out, sb, tx_call, tx_params, signed_transaction,
                   sign_count, tx>>
    /\ UNCHANGED <<reg_vars, gas_vars>>
    /\ UNCHANGED <<worker, pool, thread_call>>

\* Lines 437-449: the broadcast race is over.
tx_broadcast_done ==
    /\ op_name = "tx"
    /\ op_pc = "broadcast_race"
    /\ batch_pc = "done"
    /\ IF batch_out.kind = "return"
         THEN /\ tx' = batch_out.val[2]
              /\ stages' = Append(stages, <<"broadcast", sb, "return">>)
              /\ IF Waits(tx_call.wait_for_receipt)
                   THEN /\ op_pc' = "confirm"
                        /\ op_out' = op_out
                   ELSE /\ op_pc' = "done"
                        /\ op_out' = Returned(to_hex(signed_transaction.hash))
              /\ sb' = sb
         ELSE /\ AfterCallTx(batch_out, Len(providers.transaction))
              /\ stages' = Append(stages, <<"broadcast", sb, "raise">>)
              /\ tx' = tx
    /\ BatchReset
    /\ UNCHANGED <<op_name, gather_list, view_log, last_exception, sent, tx_call, tx_params, signed_transaction,
                   sign_count>>
    /\ UNCHANGED <<reg_vars, gas_vars>>
    /\ UNCHANGED <<worker, pool, thread_call>>

\* Lines 450-456: every endpoint of the sub-bracket is asked for the receipt
\* and the confirmation race starts.
tx_confirm ==
    /\ op_name = "tx"
    /\ op_pc = "confirm"
    /\ \E list \in ReceiptLists(sb) :
          /\ gather_list' = list
          /\ view_log' = view_log
          /\ last_exception' = last_exception
          /\ BatchStart(list, SoftConfirm, "None")
    /\ sent' = sent \cup FanOut("transaction", sb, providers.transaction[sb],
                                "wait_for_transaction_receipt", tx)
    /\ op_pc' = "confirm_race"
    /\ stages' = Append(stages, <<"confirm", sb, "start">>)
    /\ UNCHANGED <<op_name, op_out, sb, tx_call, tx_params, signed_transaction,
                   sign_count, tx>>
    /\ UNCHANGED <<reg_vars, gas_vars>>
    /\ UNCHANGED <<worker, pool, thread_call>>

\* Lines 453-458, 472-481: the confirmation race is over.
tx_confirm_done ==
    /\ op_name = "tx"
    /\ op_pc = "confirm_race"
    /\ batch_pc = "done"
    /\ IF batch_out.kind = "return"
         THEN /\ op_out' = Returned(batch_out.val[2])
              /\ op_pc' = "done"
              /\ sb' = sb
              /\ stages' = Append(stages, <<"confirm", sb, "return">>)
         ELSE /\ AfterCallTx(batch_out, Len(providers.transaction))
              /\ stages' = Append(stages, <<"confirm", sb, "raise">>)
    /\ BatchReset
    /\ UNCHANGED <<op_name, gather_list, view_log, last_exception, sent, tx_call, tx_params, signed_transaction,
                   sign_count, tx>>
    /\ UNCHANGED <<reg_vars, gas_vars>>
    /\ UNCHANGED <<worker, pool, thread_call>>

\* ----------------------------------------------- the race on its own
\* What one attempt of a race may do: answer with its own value, or raise.
BatchExcNames == {"ConnectionError", "TimeExhausted", "TransactionFailedStatus"}

AttemptOutcomes(i) == {Ok(<<i>>)} \cup {Raise(n, i) : n \in BatchExcNames}

ExecutionLists ==
    UNION {{l \in [1..n -> UNION {AttemptOutcomes(i) : i \in 1..n}] :
               \A i \in 1..n : l[i] \in AttemptOutcomes(i)} : n \in 0..MaxEndpoints}

BatchSites == {<<SoftBroadcast, "FailedOnAllRPCs">>, <<SoftConfirm, "None">>}

batch_call ==
    /\ \E list \in ExecutionLists, site \in BatchSites :
          BatchStart(list, site[1], site[2])
    /\ UNCHANGED <<reg_vars, op_vars, gas_vars, tx_vars>>

InitBatch == BatchIdle /\ NoRegistry /\ OpIdle /\ GasIdle /\ TxIdle

NextBatch == batch_call \/ BatchStep

SpecBatch == InitBatch /\ [][NextBatch]_vars

\* ------------------------------------------------- the read on its own
InitView ==
    /\ BatchIdle
    /\ OpIdle
    /\ GasIdle
    /\ TxIdle
    /\ \E lists \in BracketLists(1) :
          /\ providers = [none |-> FALSE, view |-> lists, transaction |-> <<>>]
          /\ contracts = [view |-> lists, transaction |-> <<>>]
    /\ view_policy \in {"MostUpdated", "FirstSuccess"}
    /\ node_nonce = [view |-> <<>>, transaction |-> <<>>]
    /\ SetupDone

NextView ==
    \/ call_view
    \/ view_most_updated
    \/ view_first_success
    \/ view_race_done
    \/ BatchStep

SpecView == InitView /\ [][NextView]_vars

\* ------------------------------------------------ getNonce on its own
\* The nonces the nodes behind a list of sub-brackets may report.
NonceViews(lists) ==
    {v \in [DOMAIN lists -> UNION {[1..m -> 0..MaxNonce] : m \in BracketSizes}] :
        \A k \in DOMAIN lists : DOMAIN v[k] = DOMAIN lists[k]}

InitNonce ==
    /\ BatchIdle
    /\ OpIdle
    /\ GasIdle
    /\ TxIdle
    /\ view_policy \in {"MostUpdated", "FirstSuccess"}
    /\ \E lists \in BracketLists(1) : \E v \in NonceViews(lists) :
          \/ /\ providers = [none |-> FALSE, view |-> lists, transaction |-> <<Bracket(1)>>]
             /\ node_nonce = [view |-> v, transaction |-> <<<<0>>>>]
          \/ /\ providers = [none |-> FALSE, view |-> <<>>, transaction |-> lists]
             /\ node_nonce = [view |-> <<>>, transaction |-> v]
    /\ contracts = [view |-> providers.view, transaction |-> providers.transaction]
    /\ SetupDone

NextNonce == get_nonce \/ nonce_sub_bracket

SpecNonce == InitNonce /\ [][NextNonce]_vars

\* ------------------------------------------- the estimator on its own
\* Multiplier tables with at most one priority set away from the default.
MultiplierTables ==
    {[p \in Priorities |-> IF p = q THEN m ELSE 1] : q \in Priorities, m \in 1..MaxMultiplier}

Estimators ==
    [default_method : Methods \cup {"None"}, multipliers : MultiplierTables,
     dev_env : BOOLEAN, rpc_only : BOOLEAN, fixed_gas : 1..MaxGas,
     n_providers : BracketSizes]

get_gas_price ==
    /\ \E gas_upper_bound \in 1..MaxGas, priority \in Priorities,
          method \in Methods \cup {"None"} :
          GasStart(gas_upper_bound, priority, method)
    /\ UNCHANGED <<batch_vars, reg_vars, op_vars, tx_vars>>

InitGas ==
    /\ BatchIdle
    /\ NoRegistry
    /\ OpIdle
    /\ TxIdle
    /\ gas_cfg \in Estimators
    /\ gas_call = [method |-> "None", priority |-> "low", gas_upper_bound |-> 0]
    /\ gas_pc = "idle"
    /\ gas_mode = "none"
    /\ gas_cur = "None"
    /\ gas_trace = <<>>
    /\ gas_out = NoOutcome

NextGas ==
    \/ get_gas_price
    \/ gas_api
    \/ gas_rpc
    \/ gas_fixed
    \/ gas_custom

SpecGas == InitGas /\ [][NextGas]_vars

\* ------------------------------------------ the transaction on its own
RECURSIVE Endpoints(_)
\* utils.py lines 179-180: reduce_list_of_list.
Endpoints(lists) ==
    IF lists = <<>> THEN <<>> ELSE Head(lists) \o Endpoints(Tail(lists))

\* Registries with transaction sub-brackets only, MaxEndpoints endpoints at
\* most, every node reporting the same nonce; the chain's fixed gas is above
\* the caller's ceiling, so that the cascade can run through every method.
InitTx ==
    /\ BatchIdle
    /\ OpIdle
    /\ TxIdle
    /\ view_policy = "MostUpdated"
    /\ \E lists \in BracketLists(1) :
          /\ Len(Endpoints(lists)) <= MaxEndpoints
          /\ providers = [none |-> FALSE, view |-> <<>>, transaction |-> lists]
          /\ contracts = [view |-> <<>>, transaction |-> lists]
          /\ node_nonce = [view |-> <<>>,
                           transaction |-> [k \in DOMAIN lists |->
                                               [i \in DOMAIN lists[k] |-> MaxNonce]]]
          /\ gas_cfg = [DefaultEstimator(Len(Endpoints(lists))) EXCEPT
                            !.fixed_gas = MaxGas + 1]
    /\ SetupDone
    /\ gas_call = [method |-> "None", priority |-> "low", gas_upper_bound |-> 0]
    /\ gas_pc = "idle"
    /\ gas_mode = "none"
    /\ gas_cur = "None"
    /\ gas_trace = <<>>
    /\ gas_out = NoOutcome

NextTx ==
    \/ call_tx_function
    \/ nonce_sub_bracket
    \/ tx_get_tx_params
    \/ gas_api
    \/ gas_rpc
    \/ gas_fixed
    \/ gas_custom
    \/ tx_fee_done
    \/ tx_sign
    \/ tx_broadcast
    \/ tx_broadcast_done
    \/ tx_confirm
    \/ tx_confirm_done
    \/ BatchStep

SpecTx == InitTx /\ [][NextTx]_vars

\* --------------------------------------------------------------- setup
\* Mutant of TooManyRpcs: no bracket is ever too long.
TooManyRpcsNever(rpcs) == FALSE

\* utils.py lines 149-150.
TooManyRpcs(rpcs) == Len(rpcs) > MaxRPCInEachBracket

\* Keeps every URL, whatever its probe reported.
KeepsAll(w3_connected) == TRUE

\* utils.py lines 153-157: a URL is kept unless "not w3_connected".
Keeps(w3_connected) == w3_connected

\* Never refuses a bracket for having no reachable URL.
NoValidRpcNever(valid_rpcs) == FALSE

\* utils.py line 159.
NoValidRpc(valid_rpcs) == Len(valid_rpcs) = 0

\* utils.py lines 138-142: what create_web3 reports for a URL, up being the
\* URLs whose is_connected answers True; False covers a probe that answers
\* False and one that times out.
ProbeStatus(rpc, up) == IF rpc \in up THEN <<"up">> ELSE <<"down">>

\* base lines 98-100, utils.py line 145: setup enters create_web3_from_rpc.
setup ==
    /\ setup_pc = "idle"
    /\ setup_pc' = "create_web3"
    /\ valid_providers' = [view |-> <<>>, transaction |-> <<>>]
    /\ bracket_i' = 1
    /\ UNCHANGED <<rpc_urls, chain_id, setup_out, providers, contracts, view_policy,
                   node_nonce, fn_vars>>
    /\ UNCHANGED <<batch_vars, op_vars, gas_vars, tx_vars>>

\* utils.py lines 146-162: one bracket of create_web3_from_rpc.  Each URL is
\* probed with is_connected; up is the set of those that answer.  An
\* exception leaves setup at line 100, before providers is assigned.
create_web3_from_rpc ==
    /\ setup_pc = "create_web3"
    /\ bracket_i <= Len(rpc_urls)
    /\ LET role == rpc_urls[bracket_i].role
           rpcs == rpc_urls[bracket_i].urls
           key == Len(valid_providers[role]) + 1
       IN IF TooManyRpcs(rpcs)
            THEN /\ setup_out' = Raised(Exc("MaximumRPCInEachBracketReached", 0))
                 /\ setup_pc' = "done"
                 /\ UNCHANGED <<valid_providers, bracket_i, sent>>
            ELSE \E up \in SUBSET {rpcs[i] : i \in DOMAIN rpcs} :
                    LET valid_rpcs == SelectSeq(rpcs, LAMBDA u : Keeps(u \in up))
                    IN /\ sent' = sent \cup
                             {Req(role, key, rpcs[i], "is_connected",
                                  ProbeStatus(rpcs[i], up)) : i \in DOMAIN rpcs}
                       /\ IF NoValidRpc(valid_rpcs)
                            THEN /\ setup_out' =
                                       Raised(Exc("AtLastProvideOneValidRPCInEachBracket", 0))
                                 /\ setup_pc' = "done"
                                 /\ UNCHANGED <<valid_providers, bracket_i>>
                            ELSE /\ valid_providers' =
                                       [valid_providers EXCEPT
                                           ![role] = Append(@, valid_rpcs)]
                                 /\ bracket_i' = bracket_i + 1
                                 /\ UNCHANGED <<setup_out, setup_pc>>
    /\ UNCHANGED <<rpc_urls, chain_id, providers, contracts, view_policy, node_nonce,
                   fn_vars>>
    /\ UNCHANGED <<op_name, op_pc, op_out, sb, gather_list, view_log, last_exception>>
    /\ UNCHANGED <<batch_vars, gas_vars, tx_vars>>

\* The endpoints of the registry under construction, as <<role, key, rpc>>.
ValidEndpoints ==
    UNION {UNION {{<<role, k, valid_providers[role][k][i]>> :
                      i \in DOMAIN valid_providers[role][k]} :
                  k \in DOMAIN valid_providers[role]} :
           role \in {"view", "transaction"}}

\* Lines 111-130: the handles of the endpoints whose multicall setup went
\* through, ok being the set of those endpoints.
Handles(role, ok) ==
    [k \in DOMAIN valid_providers[role] |->
        SelectSeq(valid_providers[role][k], LAMBDA e : <<role, k, e>> \in ok)]

\* The key under which the j-th configured bracket is registered.
BracketKey(j) == Cardinality({i \in 1..j : rpc_urls[i].role = rpc_urls[j].role})

RECURSIVE ProviderItems(_)
\* utils.py lines 113-121, 169-170: the endpoints of the registry in the
\* order NestedDict.items() yields them, the first j brackets of them.
ProviderItems(j) ==
    IF j = 0 THEN <<>>
    ELSE LET role == rpc_urls[j].role
             key == BracketKey(j)
             eps == valid_providers[role][key]
         IN ProviderItems(j - 1) \o [i \in DOMAIN eps |-> <<role, key, eps[i]>>]

\* What an endpoint may do with the chain id request: answer, not answer
\* within the 2 seconds, or fail on the connection.
ChainAnswers == {"id", "TimeoutError", "ConnectionError"}

\* The answers of the endpoints that are asked, of n endpoints: every one
\* times out, or up to MaxChainTimeouts of them do and the next one answers
\* or fails.
ChainAnswerLists(n) ==
    {[i \in 1..n |-> "TimeoutError"]} \cup
    {[i \in 1..m |-> IF i < m THEN "TimeoutError" ELSE a] :
        <<m, a>> \in {p \in (1..n) \X (ChainAnswers \ {"TimeoutError"}) :
                         p[1] <= MaxChainTimeouts + 1}}

\* utils.py line 173: only asyncio.TimeoutError is caught.
Caught(answer) == answer = "TimeoutError"

RECURSIVE ChainIdLoop(_, _, _, _)
\* utils.py lines 169-176: the loops of calculate_chain_id over the
\* endpoints, from the i-th; asked is how many endpoints were asked.
\* "raise last_error" with last_error None raises TypeError.
ChainIdLoop(items, answers, i, last_error) ==
    IF i > Len(items)
      THEN [out |-> IF last_error = NoExc THEN Raised(Exc("TypeError", 0))
                    ELSE Raised(last_error),
            asked |-> i - 1]
    ELSE IF answers[i] = "id"
      THEN [out |-> Returned(<<1>>), asked |-> i]
    ELSE IF Caught(answers[i])
      THEN ChainIdLoop(items, answers, i + 1, Exc(answers[i], items[i][3]))
    ELSE [out |-> Raise(answers[i], items[i][3]), asked |-> i]

\* utils.py lines 167-168.
calculate_chain_id(items, answers) == ChainIdLoop(items, answers, 1, NoExc)

\* Lines 100-133: the registry is stored, the chain id read, the default
\* estimator built and one handle made per endpoint; an endpoint whose
\* multicall setup fails on the connection is ignored.  An exception of
\* calculate_chain_id leaves setup at line 101, the registry stored and
\* nothing else.
setup_registry ==
    /\ setup_pc = "create_web3"
    /\ bracket_i > Len(rpc_urls)
    /\ providers' = [none |-> FALSE, view |-> valid_providers.view,
                     transaction |-> valid_providers.transaction]
    /\ node_nonce' = [role \in {"view", "transaction"} |->
                         [k \in DOMAIN valid_providers[role] |->
                             [i \in DOMAIN valid_providers[role][k] |-> MaxNonce]]]
    /\ LET items == ProviderItems(Len(rpc_urls))
       IN \E answers \in ChainAnswerLists(Len(items)) :
             LET c == calculate_chain_id(items, answers)
             IN /\ sent' = sent \cup
                      {Req(items[i][1], items[i][2], items[i][3], "chain_id",
                           <<answers[i]>>) : i \in 1..c.asked}
                /\ IF c.out.kind = "raise"
                     THEN /\ setup_out' = c.out
                          /\ UNCHANGED <<chain_id, gas_cfg, contracts>>
                     ELSE /\ chain_id' = c.out.val
                          /\ gas_cfg' =
                                IF valid_providers.transaction # <<>>
                                  THEN DefaultEstimator(
                                           Len(Endpoints(valid_providers.transaction)))
                                  ELSE gas_cfg
                          /\ \E ok \in SUBSET ValidEndpoints :
                                /\ contracts' = [view |-> Handles("view", ok),
                                                 transaction |-> Handles("transaction", ok)]
                                /\ setup_out' = IF ok = {}
                                                  THEN Raised(Exc("ValueError", 0))
                                                  ELSE Returned(None)
    /\ setup_pc' = "done"
    /\ UNCHANGED <<rpc_urls, valid_providers, bracket_i, view_policy, fn_vars>>
    /\ UNCHANGED <<gas_call, gas_pc, gas_mode, gas_cur, gas_trace, gas_out>>
    /\ UNCHANGED <<op_name, op_pc, op_out, sb, gather_list, view_log, last_exception>>
    /\ UNCHANGED <<batch_vars, tx_vars>>

\* ------------------------------------------------- setup and the facade
\* One bracket of a configuration: a role and a URL list, the list within
\* the limit, at the limit, or one URL too long.
BracketConfigs ==
    [role : {"view", "transaction"},
     urls : {Bracket(n) : n \in BracketSizes \cup {MaxRPCInEachBracket,
                                                    MaxRPCInEachBracket + 1}}]

\* The facade as constructed over no bracket, one or two.
InitSetup ==
    /\ BatchIdle
    /\ OpIdle
    /\ GasIdle
    /\ TxIdle
    /\ providers = [none |-> TRUE, view |-> <<>>, transaction |-> <<>>]
    /\ contracts = [view |-> <<>>, transaction |-> <<>>]
    /\ view_policy = "MostUpdated"
    /\ node_nonce = [view |-> <<>>, transaction |-> <<>>]
    /\ rpc_urls \in {<<>>} \cup {<<b>> : b \in BracketConfigs} \cup
                    {<<a, b>> : a \in BracketConfigs, b \in BracketConfigs}
    /\ chain_id = None
    /\ setup_pc = "idle"
    /\ setup_out = NoOutcome
    /\ valid_providers = [view |-> <<>>, transaction |-> <<>>]
    /\ bracket_i = 0
    /\ FnInit

\* Setup, then one call of the facade; a transaction call is followed up to
\* nonce acquisition.
NextSetup ==
    \/ setup
    \/ create_web3_from_rpc
    \/ setup_registry
    \/ call_view
    \/ view_most_updated
    \/ get_nonce
    \/ nonce_sub_bracket
    \/ call_tx_function

SpecSetup == InitSetup /\ [][NextSetup]_vars

\* ------------------------------------ setup, then one whole operation
\* A configuration with two URLs for reading and two for transacting.
LiveUrls ==
    <<[role |-> "view", urls |-> <<1, 2>>], [role |-> "transaction", urls |-> <<1, 2>>]>>

\* The facade as constructed over that configuration.
InitLive ==
    /\ BatchIdle
    /\ OpIdle
    /\ GasIdle
    /\ TxIdle
    /\ providers = [none |-> TRUE, view |-> <<>>, transaction |-> <<>>]
    /\ contracts = [view |-> <<>>, transaction |-> <<>>]
    /\ view_policy \in {"MostUpdated", "FirstSuccess"}
    /\ node_nonce = [view |-> <<>>, transaction |-> <<>>]
    /\ rpc_urls = LiveUrls
    /\ chain_id = None
    /\ setup_pc = "idle"
    /\ setup_out = NoOutcome
    /\ valid_providers = [view |-> <<>>, transaction |-> <<>>]
    /\ bracket_i = 0
    /\ FnInit

\* Setup, then a read, a nonce query or a transaction call run to its end.
NextLive ==
    \/ setup
    \/ create_web3_from_rpc
    \/ setup_registry
    \/ call_view
    \/ view_most_updated
    \/ view_first_success
    \/ view_race_done
    \/ get_nonce
    \/ nonce_sub_bracket
    \/ call_tx_function
    \/ tx_get_tx_params
    \/ gas_api
    \/ gas_rpc
    \/ gas_fixed
    \/ tx_fee_done
    \/ tx_sign
    \/ tx_broadcast
    \/ tx_broadcast_done
    \/ tx_confirm
    \/ tx_confirm_done
    \/ BatchStep

SpecLive == InitLive /\ [][NextLive]_vars

\* ----------------------------------- one confirmation worker on its own
\* The endpoint answers the worker's current wait.
receipt_response ==
    /\ worker.result.out.kind = "none"
    /\ \E r \in ReceiptResponses :
          worker' = [responses |-> Append(worker.responses, r),
                     result |-> wait_and_get_tx_receipt(1, Append(worker.responses, r))]
    /\ UNCHANGED <<tx_call, tx_params, signed_transaction, sign_count, tx, stages, pool, thread_call>>
    /\ UNCHANGED <<batch_vars, reg_vars, op_vars, gas_vars>>

InitReceipt == BatchIdle /\ NoRegistry /\ OpIdle /\ GasIdle /\ TxIdle

NextReceipt == receipt_response

SpecReceipt == InitReceipt /\ [][NextReceipt]_vars

\* ------------------------------- the confirmation race with its retries
\* The answers an endpoint gives to the waits of its worker: a receipt at
\* once or after one or two connection errors, or connection errors until
\* the worker gives up.
BackoffAnswers ==
    {pre \o <<a>> : pre \in {<<>>, <<"ConnectionError">>,
                             <<"ConnectionError", "ConnectionError">>},
                    a \in {"status1", "status0"}}
    \cup {[k \in 1..(ConErrRetries + 1) |-> "ConnectionError"]}

\* Lines 450-456, 371-384: one worker per endpoint of the sub-bracket; each
\* worker ends as its endpoint's answers make it end, after one sleep(5)
\* per connection error it retries (lines 347-351).
confirm_race ==
    /\ \E n \in 1..MaxBracketSize :
          \E answers \in [1..n -> BackoffAnswers] :
             LET w(i) == wait_and_get_tx_receipt(i, answers[i])
             IN CreateTasks([i \in 1..n |-> w(i).out], SoftConfirm, "None",
                            [i \in 1..n |-> w(i).sleeps])
    /\ UNCHANGED <<reg_vars, op_vars, gas_vars, tx_vars>>

\* Lines 347-351: a worker's wait raised ConnectionError and the worker
\* calls time.sleep(5), which does not return to the loop: the thread that
\* runs the loop, and with it every coroutine of the race, stands still.
task_backoff(i) ==
    /\ batch_pc \in {"wait", "gather"}
    /\ sleeping = 0
    /\ i \in DOMAIN tasks
    /\ tasks[i] = "running"
    /\ backoffs[i] > 0
    /\ backoffs' = [backoffs EXCEPT ![i] = @ - 1]
    /\ sleeping' = i
    /\ UNCHANGED <<execution_list, exception_handler, final_exception, tasks, cancel_event,
                   not_completed_tasks, dones, exception, terminal_exception, batch_pc,
                   batch_out>>
    /\ UNCHANGED <<reg_vars, op_vars, gas_vars, tx_vars>>

\* Line 351: sleep(5) returns and the worker goes round its loop.
sleep_return ==
    /\ sleeping # 0
    /\ sleeping' = 0
    /\ UNCHANGED <<execution_list, exception_handler, final_exception, tasks, cancel_event,
                   not_completed_tasks, dones, exception, terminal_exception, backoffs,
                   batch_pc, batch_out>>
    /\ UNCHANGED <<reg_vars, op_vars, gas_vars, tx_vars>>

InitBackoff == BatchIdle /\ NoRegistry /\ OpIdle /\ GasIdle /\ TxIdle

NextBackoff ==
    \/ confirm_race
    \/ \E i \in DOMAIN tasks : task_backoff(i)
    \/ sleep_return
    \/ BatchStep

SpecBackoff == InitBackoff /\ [][NextBackoff]_vars

\* ------------------------------------- one all-then-pick reduction on its own
\* The execution lists __gather_tasks is given: the multicalls of a view
\* sub-bracket with max_block_finder (line 217), the nonce requests of a
\* sub-bracket with max (line 231).  The list has one coroutine per handle
\* of the sub-bracket, and setup keeps a sub-bracket whose multicall setups
\* all failed with an empty handle list (lines 113-130).
GatherLists(result_selector) ==
    IF result_selector = "max_block_finder"
      THEN UNION {ViewLists(n) : n \in 0..MaxBracketSize}
      ELSE UNION {{l \in [1..n -> {Ok(<<c>>) : c \in 0..MaxNonce} \cup
                                   {Raise("ConnectionError", i) : i \in 1..n}] :
                      \A i \in 1..n : l[i].kind = "raise" => l[i].exc.at = i} :
                  n \in 0..MaxBracketSize}

\* Lines 160-164: the pool is created and executor.map submits one wrapped
\* coroutine per entry of the execution list.
gather_tasks ==
    /\ pool.pc = "idle"
    /\ \E result_selector \in {"max_block_finder", "max"} :
          \E list \in GatherLists(result_selector) :
             pool' = [PoolIdle EXCEPT !.pc = "map", !.execution_list = list,
                                      !.result_selector = result_selector, !.i = 1]
    /\ UNCHANGED <<tx_call, tx_params, signed_transaction, sign_count, tx, stages, worker,
                   thread_call>>
    /\ UNCHANGED <<batch_vars, reg_vars, op_vars, gas_vars>>

\* Lines 148-156: a pool thread runs one wrapped coroutine to its end; the
\* wrapper returns the result or the exception.
sync_wrapper(t) ==
    /\ pool.pc = "map"
    /\ t \in DOMAIN pool.execution_list
    /\ t \notin pool.finished
    /\ pool' = [pool EXCEPT !.finished = @ \cup {t}]
    /\ UNCHANGED <<tx_call, tx_params, signed_transaction, sign_count, tx, stages, worker,
                   thread_call>>
    /\ UNCHANGED <<batch_vars, reg_vars, op_vars, gas_vars>>

\* Lines 165-169: the iterator of executor.map yields the next pair, in the
\* order of the execution list, when its thread has finished.
executor_map_next ==
    /\ pool.pc = "map"
    /\ pool.i <= Len(pool.execution_list)
    /\ pool.i \in pool.finished
    /\ LET o == pool.execution_list[pool.i]
       IN pool' = IF o.kind = "raise"
                    THEN [pool EXCEPT !.exceptions = Append(@, o.exc), !.i = @ + 1]
                    ELSE [pool EXCEPT !.results = Append(@, o.val), !.i = @ + 1]
    /\ UNCHANGED <<tx_call, tx_params, signed_transaction, sign_count, tx, stages, worker,
                   thread_call>>
    /\ UNCHANGED <<batch_vars, reg_vars, op_vars, gas_vars>>

\* Lines 162, 170-175: the with block is left, which joins the pool's
\* threads, and the results are reduced.
gather_return_all ==
    /\ pool.pc = "map"
    /\ pool.i > Len(pool.execution_list)
    /\ pool.finished = DOMAIN pool.execution_list
    /\ pool' = [pool EXCEPT !.pc = "done",
                            !.out = PickOrFail(pool.results, pool.exceptions,
                                               pool.result_selector)]
    /\ UNCHANGED <<tx_call, tx_params, signed_transaction, sign_count, tx, stages, worker,
                   thread_call>>
    /\ UNCHANGED <<batch_vars, reg_vars, op_vars, gas_vars>>

InitGather == BatchIdle /\ NoRegistry /\ OpIdle /\ GasIdle /\ TxIdle

NextGather ==
    \/ gather_tasks
    \/ \E t \in DOMAIN pool.execution_list : sync_wrapper(t)
    \/ executor_map_next
    \/ gather_return_all

SpecGather == InitGather /\ [][NextGather]_vars

\* ------------------------------ one call of a synchronous operation
\* sync_multi_rpc_interface.py lines 22, 54-68, 77: the operations wrapped
\* by thread_safe.
SyncOperations ==
    {"__init__", "get_nonce", "get_tx_receipt", "get_block", "get_block_number", "call"}

\* What the wrapped function does when it is run: it returns nothing or a
\* value, or one of the operation's exceptions leaves it.
InnerOutcomes ==
    {Returned(None)} \cup {Returned(<<v>>) : v \in 0..MaxNonce}
    \cup {Raised(Exc(n, 0)) : n \in {"DontHaveThisRpcType", "Web3InterfaceException",
                                     "FailedOnAllRPCs", "TransactionFailedStatus",
                                     "ValueError"}}

\* utils.py lines 32-33: ReturnableThread.run stores what the target
\* returns; an exception of the target leaves run, ends the thread and
\* leaves result as __init__ set it.
ReturnableThread_run(inner) == IF inner.kind = "return" THEN inner.val ELSE None

\* utils.py lines 48-60: what the wrapper gives its caller.
thread_safe(running_loop, inner) ==
    IF running_loop THEN Returned(ReturnableThread_run(inner)) ELSE inner

\* Lines 50-54, 57: the wrapper is entered; get_running_loop returns on a
\* thread that runs a loop, and the thread is started, or raises
\* RuntimeError.
wrapper ==
    /\ thread_call.pc = "idle"
    /\ \E func \in SyncOperations, running_loop \in BOOLEAN, inner \in InnerOutcomes :
          thread_call' = [ThreadIdle EXCEPT !.pc = IF running_loop THEN "started"
                                                   ELSE "except",
                                            !.running_loop = running_loop,
                                            !.func = func, !.inner = inner]
    /\ UNCHANGED <<tx_call, tx_params, signed_transaction, sign_count, tx, stages, worker,
                   pool>>
    /\ UNCHANGED <<batch_vars, reg_vars, op_vars, gas_vars>>

\* Lines 32-33: the worker thread runs the function to its end.
thread_run ==
    /\ thread_call.pc = "started"
    /\ thread_call' = [thread_call EXCEPT !.pc = "join",
                                          !.result = ReturnableThread_run(thread_call.inner)]
    /\ UNCHANGED <<tx_call, tx_params, signed_transaction, sign_count, tx, stages, worker,
                   pool>>
    /\ UNCHANGED <<batch_vars, reg_vars, op_vars, gas_vars>>

\* Lines 55-56: join returns once the thread has ended and the wrapper
\* returns the thread's result.
thread_join ==
    /\ thread_call.pc = "join"
    /\ thread_call' = [thread_call EXCEPT !.pc = "done",
                                          !.out = Returned(thread_call.result)]
    /\ UNCHANGED <<tx_call, tx_params, signed_transaction, sign_count, tx, stages, worker,
                   pool>>
    /\ UNCHANGED <<batch_vars, reg_vars, op_vars, gas_vars>>

\* Lines 57-58: without a running loop the function is called on the
\* caller's thread.
wrapper_except ==
    /\ thread_call.pc = "except"
    /\ thread_call' = [thread_call EXCEPT !.pc = "done", !.out = thread_call.inner]
    /\ UNCHANGED <<tx_call, tx_params, signed_transaction, sign_count, tx, stages, worker,
                   pool>>
    /\ UNCHANGED <<batch_vars, reg_vars, op_vars, gas_vars>>

InitThread == BatchIdle /\ NoRegistry /\ OpIdle /\ GasIdle /\ TxIdle

NextThread ==
    \/ wrapper
    \/ thread_run
    \/ thread_join
    \/ wrapper_except

SpecThread == InitThread /\ [][NextThread]_vars

\* ------------------------------------- the operations' entry on any facade
\* Facades after setup: with or without a view bracket (MaxEndpoints view
\* endpoints at most), with or without a transaction bracket, never without
\* both; every node reports the same nonce.
InitDispatch ==
    /\ BatchIdle
    /\ OpIdle
    /\ GasIdle
    /\ TxIdle
    /\ view_policy \in {"MostUpdated", "FirstSuccess"}
    /\ \E v \in {<<>>} \cup BracketLists(1), t \in {<<>>, <<Bracket(1)>>} :
          /\ Len(Endpoints(v)) <= MaxEndpoints
          /\ Len(v) + Len(t) > 0
          /\ providers = [none |-> FALSE, view |-> v, transaction |-> t]
          /\ contracts = [view |-> v, transaction |-> t]
          /\ node_nonce = [view |-> [k \in DOMAIN v |-> [i \in DOMAIN v[k] |-> MaxNonce]],
                           transaction |-> [k \in DOMAIN t |->
                                               [i \in DOMAIN t[k] |-> MaxNonce]]]
    /\ SetupDone

NextDispatch ==
    \/ call_view
    \/ view_most_updated
    \/ view_first_success
    \/ view_race_done
    \/ raw_query
    \/ raw_sub_bracket
    \/ raw_race_done
    \/ call_tx_function
    \/ nonce_sub_bracket
    \/ BatchStep

SpecDispatch == InitDispatch /\ [][NextDispatch]_vars

\* -------------------------------------- every operation, run to its end
\* The sub-brackets of either role: two endpoints, then one.
OpsBrackets == <<<<1, 2>>, <<1>>>>

\* A facade set up over these sub-brackets for reads and for transactions,
\* every node reporting the same nonce, the chain's fixed gas above the
\* caller's ceiling.
InitOps ==
    /\ BatchIdle
    /\ OpIdle
    /\ TxIdle
    /\ view_policy \in {"MostUpdated", "FirstSuccess"}
    /\ providers = [none |-> FALSE, view |-> OpsBrackets, transaction |-> OpsBrackets]
    /\ contracts = [view |-> OpsBrackets, transaction |-> OpsBrackets]
    /\ node_nonce = [role \in {"view", "transaction"} |->
                        [k \in DOMAIN OpsBrackets |->
                            [i \in DOMAIN OpsBrackets[k] |-> MaxNonce]]]
    /\ gas_cfg = [DefaultEstimator(Len(Endpoints(OpsBrackets))) EXCEPT
                      !.fixed_gas = MaxGas + 1]
    /\ SetupDone
    /\ gas_call = [method |-> "None", priority |-> "low", gas_upper_bound |-> 0]
    /\ gas_pc = "idle"
    /\ gas_mode = "none"
    /\ gas_cur = "None"
    /\ gas_trace = <<>>
    /\ gas_out = NoOutcome

\* One read, nonce query, raw query or transaction call.
NextOps ==
    \/ call_view
    \/ view_most_updated
    \/ view_first_success
    \/ view_race_done
    \/ get_nonce
    \/ nonce_sub_bracket
    \/ raw_query
    \/ raw_sub_bracket
    \/ raw_race_done
    \/ call_tx_function
    \/ tx_get_tx_params
    \/ gas_api
    \/ gas_rpc
    \/ gas_fixed
    \/ gas_custom
    \/ tx_fee_done
    \/ tx_sign
    \/ tx_broadcast
    \/ tx_broadcast_done
    \/ tx_confirm
    \/ tx_confirm_done
    \/ BatchStep

SpecOps == InitOps /\ [][NextOps]_vars

\* Every endpoint request completes and the event loop runs what is ready:
\* a step that stays possible is taken.
FairOps == SpecOps /\ WF_vars(NextOps)

\* ------------------------------------------ descriptors and pending calls
\* A Python tuple and a Python dict as values, both distinct from None.
Tuple(s) == <<"tuple", s>>

Dict(d) == <<"dict", d>>

\* The positional and keyword arguments a caller may bind.
ArgTuples == {<<>>, <<1>>, <<2>>}

KwargDicts == {<<>>, <<<<"k", 1>>>>}

\* Binding that writes the arguments into the instance it was invoked on.
BindInPlace(objs, o, args, kwargs) ==
    [objs EXCEPT ![o] = [@ EXCEPT !.args = Tuple(args), !.kwargs = Dict(kwargs)]]

\* async_multi_rpc_interface.py lines 63-68, sync lines 70-75: __call__
\* constructs a ContractFunction with the name and type of self and sets the
\* arguments on the new instance.
NewInstance(objs, o, args, kwargs) ==
    Append(objs, [ContractFunction(objs[o].name, objs[o].typ) EXCEPT
                      !.args = Tuple(args), !.kwargs = Dict(kwargs)])

\* __call__ on any instance, a descriptor or a pending call.
fn_bind ==
    /\ Len(objects) < Len(Descriptors) + MaxPending
    /\ \E o \in DOMAIN objects, args \in ArgTuples, kwargs \in KwargDicts :
          objects' = NewInstance(objects, o, args, kwargs)
    /\ returned' = Len(objects')
    /\ UNCHANGED <<providers, contracts, view_policy, node_nonce, setup_vars>>
    /\ UNCHANGED <<batch_vars, op_vars, gas_vars, tx_vars>>

\* async lines 70-101: call on any instance.  After the bracket test a view
\* call unpacks self.args (line 86), a TypeError on a descriptor that was
\* never bound; the call reads the instance and writes nothing to it.
fn_call ==
    \E o \in DOMAIN objects :
        IF /\ objects[o].typ = "view"
           /\ objects[o].args = None
           /\ ~providers.none
           /\ ~DontHave("view")
          THEN /\ op_pc = "idle"
               /\ op_name' = "view"
               /\ op_out' = Raised(Exc("TypeError", 0))
               /\ op_pc' = "done"
               /\ UNCHANGED <<sb, gather_list, view_log, last_exception, sent>>
               /\ UNCHANGED <<batch_vars, reg_vars, gas_vars, tx_vars>>
          ELSE IF objects[o].typ = "view" THEN call_view ELSE call_tx_function

\* A facade set up over one view endpoint and one transaction endpoint.
InitBind ==
    /\ BatchIdle
    /\ OpIdle
    /\ GasIdle
    /\ TxIdle
    /\ view_policy = "MostUpdated"
    /\ providers = [none |-> FALSE, view |-> <<Bracket(1)>>, transaction |-> <<Bracket(1)>>]
    /\ contracts = [view |-> <<Bracket(1)>>, transaction |-> <<Bracket(1)>>]
    /\ node_nonce = [view |-> <<<<MaxNonce>>>>, transaction |-> <<<<MaxNonce>>>>]
    /\ SetupDone

NextBind ==
    \/ fn_bind
    \/ fn_call

SpecBind == InitBind /\ [][NextBind]_vars

\* ------------------------------------------------------------ claims
\* The endpoints that answered in the latest all-then-pick fan-out.
Answering == {i \in DOMAIN gather_list : gather_list[i].kind = "ok"}

\* C1: under MostUpdated, whenever some endpoint of the sub-bracket answers,
\* the read returns the decoded value of the answering endpoint with the
\* highest block number, the lowest index among those at that block.
C1_MostUpdatedPicksArgmax ==
    (op_name = "view" /\ view_policy = "MostUpdated" /\ Answering # {}) =>
        /\ op_pc = "done"
        /\ op_out.kind = "return"
        /\ \E i \in Answering :
              /\ \A j \in Answering : gather_list[j].val[1] <= gather_list[i].val[1]
              /\ \A j \in Answering :
                    gather_list[j].val[1] = gather_list[i].val[1] => i <= j
              /\ op_out.val = <<i>>

\* A read answered from the second sub-bracket by two endpoints at the same
\* highest block.
C1_Witness ==
    /\ op_name = "view"
    /\ view_policy = "MostUpdated"
    /\ op_pc = "done"
    /\ sb = 2
    /\ Cardinality(Answering) >= 2
    /\ \A i \in Answering : gather_list[i].val[1] = MaxBlock
    /\ op_out = Returned(<<1>>)
SucceededTasks == {i \in DOMAIN tasks : tasks[i] = "ok"}

OkAttempts == {i \in DOMAIN execution_list : execution_list[i].kind = "ok"}

TerminalAttempts ==
    {i \in DOMAIN execution_list :
        /\ execution_list[i].kind = "raise"
        /\ ~IsInstance(execution_list[i].exc, exception_handler)}

\* C2 as stated: whenever some attempt of a first-success race is one that
\* succeeds, whatever the completion order and the failures of the others,
\* the race returns the result of a successful attempt.
C2_AnySuccessIsReturned ==
    (batch_pc = "done" /\ OkAttempts # {}) =>
        /\ batch_out.kind = "return"
        /\ \E i \in OkAttempts : batch_out.val = execution_list[i].val

\* C2 as amended: the race returns the result of an attempt that completed
\* successfully whenever some attempt completed successfully before the race
\* stopped waiting, which is the case whenever some attempt succeeds and no
\* attempt fails with a non-soft error.
C2_CompletedSuccessIsReturned ==
    batch_pc = "done" =>
        /\ (OkAttempts # {} /\ TerminalAttempts = {}) => SucceededTasks # {}
        /\ SucceededTasks # {} =>
              /\ batch_out.kind = "return"
              /\ \E i \in SucceededTasks : batch_out.val = execution_list[i].val

\* A race that returned a result although a non-soft failure and a soft
\* failure were collected too.
C2_Witness ==
    /\ batch_pc = "done"
    /\ batch_out.kind = "return"
    /\ terminal_exception # NoExc
    /\ exception # NoExc
    /\ Cardinality(SucceededTasks) >= 1

\* C3: when a first-success race has returned or raised, every task it
\* launched is finished: completed, failed, or cancelled and awaited.
C3_NoTaskOutlivesRace ==
    batch_pc = "done" => \A i \in DOMAIN tasks : TaskDone(i)

\* A race that ended after cancelling an attempt that was still running.
C3_Witness ==
    /\ batch_pc = "done"
    /\ \E i \in DOMAIN tasks : tasks[i] = "cancelled"
    /\ \E i \in DOMAIN tasks : tasks[i] \in {"ok", "exc"}

\* C4 as stated: when every endpoint reports a nonce, getNonce returns the
\* maximum of the nonces of all the endpoints of the role it queries,
\* whatever the number of sub-brackets.
AllNonces ==
    UNION {{node_nonce[NonceRole][k][i] : i \in DOMAIN node_nonce[NonceRole][k]} :
              k \in DOMAIN node_nonce[NonceRole]}

SubBracketNonces(k) ==
    {node_nonce[NonceRole][k][i] : i \in DOMAIN node_nonce[NonceRole][k]}

SetMax(S) == CHOOSE m \in S : \A x \in S : x <= m

C4_NonceIsMaxOfAllEndpoints ==
    (op_name = "nonce" /\ op_pc = "done" /\ Answering = DOMAIN gather_list /\ sb = 1) =>
        op_out = Returned(<<SetMax(AllNonces)>>)

\* C4 as amended: when every endpoint reports a nonce, getNonce returns the
\* maximum of the nonces of the endpoints of the first sub-bracket of the
\* role it queries, and queries no later sub-bracket; in general it returns
\* the maximum over the answering endpoints of the first sub-bracket in
\* which some endpoint answers.
C4_NonceIsMaxOfFirstSubBracket ==
    /\ (op_name = "nonce" /\ op_pc = "done" /\ Answering = DOMAIN gather_list /\ sb = 1) =>
          /\ op_out = Returned(<<SetMax(SubBracketNonces(1))>>)
          /\ \A r \in sent : r.sb = 1
    /\ (op_name = "nonce" /\ Answering # {}) =>
          /\ op_pc = "done"
          /\ op_out = Returned(<<SetMax({gather_list[i].val[1] : i \in Answering})>>)
          /\ \A r \in sent : r.role = NonceRole /\ r.sb <= sb

\* getNonce answered by a first sub-bracket whose endpoints disagree, while a
\* later sub-bracket holds a higher nonce.
C4_Witness ==
    /\ op_name = "nonce"
    /\ op_pc = "done"
    /\ sb = 1
    /\ Answering = DOMAIN gather_list
    /\ Cardinality(SubBracketNonces(1)) >= 2
    /\ Len(node_nonce[NonceRole]) >= 2
    /\ op_out = Returned(<<SetMax(SubBracketNonces(1))>>)

\* ---- gas estimation
GasDone == gas_pc = "done"

\* The method the call pins: the caller's, else the estimator's default.
Pinned ==
    IF gas_call.method # "None" THEN gas_call.method ELSE gas_cfg.default_method

AboveCeilingQuote(t) ==
    /\ t.method = "GAS_API_PROVIDER"
    /\ t.env.kind = "quote"
    /\ t.env.max_fee > gas_call.gas_upper_bound

\* C7: with a method named by the caller or set as the estimator's default,
\* only that method is invoked and get_gas_price ends as that method ended;
\* a pinned gas API quoting above the ceiling ends the call with
\* OutOfRangeTransactionFee; and a method runs after an above-ceiling API
\* quote only when no method is pinned and the cascade is in use.
C7_PinnedMethodOnly ==
    /\ (gas_pc # "idle" /\ Pinned # "None") =>
          /\ Len(gas_trace) <= 1
          /\ \A k \in 1..Len(gas_trace) : gas_trace[k].method = Pinned
    /\ (GasDone /\ Pinned # "None") =>
          /\ Len(gas_trace) = 1
          /\ gas_out = gas_trace[1].result
          /\ AboveCeilingQuote(gas_trace[1]) =>
                gas_out = Raised(Exc("OutOfRangeTransactionFee", 0))
    /\ \A k \in 1..Len(gas_trace) :
          (AboveCeilingQuote(gas_trace[k]) /\ k < Len(gas_trace)) =>
             /\ Pinned = "None"
             /\ ~gas_cfg.dev_env
             /\ ~gas_cfg.rpc_only

C7_Witness ==
    /\ GasDone
    /\ gas_call.method = "None"
    /\ gas_cfg.default_method = "GAS_API_PROVIDER"
    /\ Len(gas_trace) = 1
    /\ AboveCeilingQuote(gas_trace[1])
    /\ gas_out = Raised(Exc("OutOfRangeTransactionFee", 0))

\* The fee a set of gas parameters selects, in wei.
SelectedFee(gas_params) ==
    IF "gasPrice" \in DOMAIN gas_params THEN gas_params.gasPrice
    ELSE gas_params.maxFeePerGas

\* C8: whenever get_gas_price returns gas parameters, the selected fee is at
\* most the caller's ceiling.
C8_FeeWithinCeiling ==
    (GasDone /\ gas_out.kind = "return") =>
        SelectedFee(gas_out.val) <= to_wei(gas_call.gas_upper_bound)

\* C9: in the cascade the methods run in the order Gas-API, RPC, Fixed,
\* Custom; the call returns what the first returning method returned, every
\* earlier failure lets the next method run, and the call fails, with
\* FailedToGetGasPrice, only after all four methods failed.
C9_CascadeTriesEveryMethod ==
    (gas_pc # "idle" /\ Pinned = "None" /\ ~gas_cfg.dev_env /\ ~gas_cfg.rpc_only) =>
        /\ \A k \in 1..Len(gas_trace) : gas_trace[k].method = method_sorted_priority[k]
        /\ \A k \in 1..(Len(gas_trace) - 1) : gas_trace[k].result.kind = "raise"
        /\ GasDone =>
              \/ /\ gas_out.kind = "return"
                 /\ gas_out = gas_trace[Len(gas_trace)].result
              \/ /\ gas_out = Raised(Exc("FailedToGetGasPrice", 0))
                 /\ Len(gas_trace) = Len(method_sorted_priority)
                 /\ \A k \in 1..Len(gas_trace) : gas_trace[k].result.kind = "raise"

\* ---- the transaction call
Requests(kind) == {r \in sent : r.kind = kind}

\* C5: in one transaction call the assemble-and-sign step runs exactly once,
\* also when the call escalates through several sub-brackets, and every
\* broadcast of the call carries the same raw payload.
C5_SignedOnceSamePayload ==
    op_name = "tx" =>
        /\ sign_count <= 1
        /\ (op_pc = "done" /\ op_out.kind = "return") => sign_count = 1
        /\ \A r1, r2 \in Requests("send_raw_transaction") : r1.data = r2.data

LastStage == stages[Len(stages)]

StageStarted(stage, k) == \E j \in DOMAIN stages : stages[j] = <<stage, k, "start">>

\* C6: the stages of a transaction call start in the order nonce, fee, sign,
\* broadcast, confirm, each only after the one before it returned (sign also
\* after the previous sub-bracket failed); the estimator and the races run
\* only inside their stage; an endpoint receives a request of a stage only
\* after that stage started; and a failed nonce or fee stage ends the call
\* with nothing signed and nothing broadcast.
C6_StagesInOrder ==
    op_name = "tx" =>
        /\ \A j \in DOMAIN stages :
              stages[j][3] = "start" =>
                 CASE stages[j][1] = "nonce" -> j = 1
                   [] stages[j][1] = "fee" ->
                        j > 1 /\ stages[j - 1] = <<"nonce", 0, "return">>
                   [] stages[j][1] = "sign" ->
                        /\ j > 1
                        /\ \/ stages[j][2] = 1 /\ stages[j - 1] = <<"fee", 0, "return">>
                           \/ /\ stages[j - 1][1] \in {"sign", "broadcast", "confirm"}
                              /\ stages[j - 1][3] = "raise"
                              /\ stages[j - 1][2] = stages[j][2] - 1
                   [] stages[j][1] = "broadcast" ->
                        j > 1 /\ stages[j - 1] = <<"sign", stages[j][2], "return">>
                   [] stages[j][1] = "confirm" ->
                        j > 1 /\ stages[j - 1] = <<"broadcast", stages[j][2], "return">>
                   [] OTHER -> FALSE
        /\ gas_pc # "idle" => LastStage = <<"fee", 0, "start">>
        /\ batch_pc # "idle" =>
              LastStage \in {<<"broadcast", sb, "start">>, <<"confirm", sb, "start">>}
        /\ sign_count = Cardinality({j \in DOMAIN stages :
                                        stages[j][1] = "sign" /\ stages[j][3] = "start"})
        /\ signed_transaction # None =>
              \E j \in DOMAIN stages : stages[j][1] = "sign" /\ stages[j][3] = "return"
        /\ \A r \in Requests("estimate_gas") : StageStarted("sign", r.sb)
        /\ \A r \in Requests("send_raw_transaction") : StageStarted("broadcast", r.sb)
        /\ \A r \in Requests("wait_for_transaction_receipt") : StageStarted("confirm", r.sb)
        /\ \A j \in DOMAIN stages :
              (stages[j][1] \in {"nonce", "fee"} /\ stages[j][3] = "raise") =>
                 /\ j = Len(stages)
                 /\ op_pc = "done"
                 /\ op_out.kind = "raise"
                 /\ sign_count = 0
                 /\ signed_transaction = None
                 /\ Requests("estimate_gas") = {}
                 /\ Requests("send_raw_transaction") = {}
                 /\ Requests("wait_for_transaction_receipt") = {}

\* A call whose fee estimation ended with OutOfRangeTransactionFee.
C6_Witness ==
    /\ op_name = "tx"
    /\ op_pc = "done"
    /\ op_out = Raised(Exc("OutOfRangeTransactionFee", 0))
    /\ Len(stages) = 4
    /\ LastStage = <<"fee", 0, "raise">>
    /\ sign_count = 0
    /\ Requests("send_raw_transaction") = {}

\* ---- setup
Oversize == {k \in DOMAIN rpc_urls : Len(rpc_urls[k].urls) > MaxRPCInEachBracket}

FirstOversize == CHOOSE k \in Oversize : \A j \in Oversize : k <= j

\* Setup left no registry: no providers, no chain id, no handles.
NoRegistryLeft ==
    /\ providers = [none |-> TRUE, view |-> <<>>, transaction |-> <<>>]
    /\ chain_id = None
    /\ contracts = [view |-> <<>>, transaction |-> <<>>]

\* Every call made so far was refused before it reached an endpoint: the only
\* requests endpoints have seen are the probes of setup.
NothingDispatched ==
    /\ op_name # "none" =>
          /\ op_pc = "done"
          /\ op_out = Raised(Exc("AttributeError", 0))
    /\ \A r \in sent : r.kind = "is_connected"

\* C10 as stated: with a bracket longer than MaxRPCInEachBracket, setup
\* raises MaximumRPCInEachBracketReached, leaves no registry, and no call
\* reaches an endpoint.
C10_OversizeRaisesMaximumRPC ==
    (setup_pc = "done" /\ Oversize # {}) =>
        /\ setup_out = Raised(Exc("MaximumRPCInEachBracketReached", 0))
        /\ NoRegistryLeft
        /\ NothingDispatched

\* C10, amended: with a bracket longer than MaxRPCInEachBracket, setup raises
\* MaximumRPCInEachBracketReached at the first such bracket, unless a bracket
\* before it had no reachable URL and raised
\* AtLastProvideOneValidRPCInEachBracket; either way no registry is left, no
\* call reaches an endpoint, and only brackets before the long one were probed.
C10_OversizeLeavesNoRegistry ==
    /\ Oversize # {} =>
          /\ NoRegistryLeft
          /\ NothingDispatched
          /\ bracket_i <= FirstOversize
          /\ \A r \in sent :
                \E k \in 1..(FirstOversize - 1) :
                   rpc_urls[k].role = r.role /\ r.ep \in {rpc_urls[k].urls[i] :
                                                             i \in DOMAIN rpc_urls[k].urls}
    /\ (setup_pc = "done" /\ Oversize # {}) =>
          \/ /\ setup_out = Raised(Exc("MaximumRPCInEachBracketReached", 0))
             /\ bracket_i = FirstOversize
          \/ /\ setup_out = Raised(Exc("AtLastProvideOneValidRPCInEachBracket", 0))
             /\ bracket_i < FirstOversize

\* Setup refused the second bracket as too long after probing the first, and
\* a view read made afterwards was refused.
C10_Witness ==
    /\ setup_pc = "done"
    /\ Oversize = {2}
    /\ setup_out = Raised(Exc("MaximumRPCInEachBracketReached", 0))
    /\ sent # {}
    /\ NoRegistryLeft
    /\ op_name = "view"
    /\ op_pc = "done"
    /\ op_out = Raised(Exc("AttributeError", 0))

\* Every endpoint asked by the read so far, in any of its fan-outs, failed
\* with the named exception.
AllViewAttemptsRaised(name) ==
    /\ view_log # <<>>
    /\ \A k \in DOMAIN view_log : \A i \in DOMAIN view_log[k] :
          /\ view_log[k][i].kind = "raise"
          /\ view_log[k][i].exc.name = name

\* C11: under either policy, a read whose every asked endpoint failed with a
\* connection error ends by raising FailedOnAllRPCs with a message that
\* quotes a connection error.
C11_AllConnectionErrorsRaiseFailedOnAll ==
    (op_name = "view" /\ op_pc = "done" /\ AllViewAttemptsRaised("ConnectionError")) =>
        /\ op_out.kind = "raise"
        /\ op_out.exc.name = "FailedOnAllRPCs"
        /\ Len(op_out.exc.msg) = 2
        /\ op_out.exc.msg[1] = "ConnectionError"

\* The per-endpoint failures that the races treat as soft.
SoftErrorNames == {"ConnectionError", "ReadTimeout", "HTTPError", "ValueError"}

\* C12: a read or a transaction call that raises never raises an endpoint's
\* soft error itself; when it fails because of soft errors it raises
\* FailedOnAllRPCs.
C12_SoftErrorNeverReachesCaller ==
    (op_name \in {"view", "tx"} /\ op_pc = "done" /\ op_out.kind = "raise") =>
        op_out.exc.name \notin SoftErrorNames

\* The operation was refused at its entry: it has raised DontHaveThisRpcType
\* and no request was sent, no race started, no stage of the transaction
\* pipeline and no method of the fee estimator was entered.
RefusedAtEntry ==
    /\ op_pc = "done"
    /\ op_out = Raised(Exc("DontHaveThisRpcType", 0))
    /\ sent = {}
    /\ batch_pc = "idle"
    /\ stages = <<>>
    /\ gas_trace = <<>>
    /\ signed_transaction = None

C14_NoWaitReturnsHashWithoutConfirming ==
    (op_name = "tx" /\ ~tx_call.wait_for_receipt) =>
        /\ Requests("wait_for_transaction_receipt") = {}
        /\ \A j \in DOMAIN stages : stages[j][1] # "confirm"
        /\ op_pc \notin {"confirm", "confirm_race"}
        /\ (stages # <<>> /\ LastStage = <<"broadcast", sb, "return">>) =>
              /\ op_pc = "done"
              /\ batch_pc = "idle"
              /\ op_out = Returned(to_hex(sign_transaction(tx_params,
                                                           tx_call.private_key).hash))

\* A call that did not wait for the receipt and returned the hash after the
\* second sub-bracket's broadcast.
C14_Witness ==
    /\ op_name = "tx"
    /\ ~tx_call.wait_for_receipt
    /\ op_pc = "done"
    /\ sb = 2
    /\ op_out.kind = "return"
    /\ op_out.val[1] = "0x"
    /\ Requests("send_raw_transaction") # {}

\* C15: a binding adds one instance, returns it, and changes nothing else;
\* no step changes an instance that exists, so the descriptors stay unbound
\* and every pending call keeps the arguments it was created with, whatever
\* bindings and calls follow.
C15_BindingCreatesFreshPendingCall ==
    [][/\ \A i \in DOMAIN objects : i \in DOMAIN objects' /\ objects'[i] = objects[i]
       /\ \A i \in DOMAIN Descriptors :
             objects'[i].args = None /\ objects'[i].kwargs = None
       /\ objects' # objects =>
             /\ Len(objects') = Len(objects) + 1
             /\ returned' = Len(objects')
             /\ objects'[returned'].args # None
             /\ UNCHANGED <<providers, contracts, view_policy, node_nonce, setup_vars,
                            batch_vars, op_vars, gas_vars, tx_vars>>]_vars

\* Two pending calls bound from the same descriptor with different
\* arguments, a third bound from the first of them, and a call made.
C15_Witness ==
    /\ Len(objects) = Len(Descriptors) + 3
    /\ objects[3].name = "get"
    /\ objects[3].args = Tuple(<<1>>)
    /\ objects[4].name = "get"
    /\ objects[4].args = Tuple(<<2>>)
    /\ objects[5].kwargs = Dict(<<<<"k", 1>>>>)
    /\ objects[1] = ContractFunction("get", "view")
    /\ op_pc # "idle"

\* The block in which the transaction whose receipt the caller holds was
\* mined: the head of the chain.  A node that has not reached it still
\* serves the state before the write.
WriteBlock == MaxBlock

\* What a node at the given block answers when the written state is read.
StateAt(block) == IF block >= WriteBlock THEN "written" ELSE "previous"

\* C16: a read that follows a transaction whose receipt was returned gives
\* the written value, under either policy and whichever endpoints answer:
\* the endpoint whose answer the read returns has reached the block of the
\* write.
C16_ReadYourWrites ==
    (op_name = "view" /\ op_pc = "done" /\ op_out.kind = "return") =>
        \A i \in Answering :
            op_out.val = <<i>> => StateAt(gather_list[i].val[1]) = "written"

\* Setup has returned without raising.
SetupSucceeded == setup_pc = "done" /\ setup_out.kind = "return"

\* The sub-brackets the registry holds, as <<role, key>>.
RegistryBrackets ==
    UNION {{<<role, k>> : k \in DOMAIN providers[role]} : role \in {"view", "transaction"}}

\* C17 as stated: after a successful setup every bracket of the registry
\* holds fewer than MaxRPCInEachBracket endpoints.
C17_BracketsBelowLimit ==
    SetupSucceeded =>
        \A b \in RegistryBrackets : Len(providers[b[1]][b[2]]) < MaxRPCInEachBracket

\* C17, amended: after a successful setup every bracket of the registry
\* holds at most MaxRPCInEachBracket endpoints.
C17_BracketsWithinLimit ==
    SetupSucceeded =>
        /\ \A b \in RegistryBrackets : Len(providers[b[1]][b[2]]) <= MaxRPCInEachBracket
        /\ \A k \in DOMAIN rpc_urls : Len(rpc_urls[k].urls) <= MaxRPCInEachBracket

\* A successful setup whose registry holds a bracket of exactly
\* MaxRPCInEachBracket endpoints.
C17_Witness ==
    /\ SetupSucceeded
    /\ \E b \in RegistryBrackets : Len(providers[b[1]][b[2]]) = MaxRPCInEachBracket

\* The probes setup made, and those of one bracket.
Probes == Requests("is_connected")

ProbesOf(role, key) == {r \in Probes : r.role = role /\ r.sb = key}

\* The key under which the k-th configured bracket is registered: its
\* position among the brackets of its role.
KeyOf(k) == Cardinality({j \in 1..k : rpc_urls[j].role = rpc_urls[k].role})

\* The brackets that were probed and found without any reachable URL.
DeadBrackets ==
    {<<r.role, r.sb>> : r \in {p \in Probes :
        \A q \in ProbesOf(p.role, p.sb) : q.data = <<"down">>}}

\* C18: after a successful setup every configured bracket is in the registry
\* with at least one endpoint whose probe answered; a bracket whose probes
\* all failed ends setup with AtLastProvideOneValidRPCInEachBracket and
\* without a registry.
C18_EveryBracketHasLiveEndpoint ==
    /\ SetupSucceeded =>
          \A k \in DOMAIN rpc_urls :
              LET role == rpc_urls[k].role
              IN /\ KeyOf(k) \in DOMAIN providers[role]
                 /\ Len(providers[role][KeyOf(k)]) >= 1
                 /\ \E i \in DOMAIN providers[role][KeyOf(k)] :
                       \E p \in ProbesOf(role, KeyOf(k)) :
                           p.ep = providers[role][KeyOf(k)][i] /\ p.data = <<"up">>
    /\ DeadBrackets # {} =>
          /\ setup_pc = "done"
          /\ setup_out = Raised(Exc("AtLastProvideOneValidRPCInEachBracket", 0))
          /\ NoRegistryLeft

\* Setup raised on its second bracket, none of whose two URLs answered the
\* probe, after the first bracket had been accepted.
C18_Witness ==
    /\ setup_pc = "done"
    /\ Len(rpc_urls) = 2
    /\ bracket_i = 2
    /\ Len(rpc_urls[2].urls) = 2
    /\ DeadBrackets # {}
    /\ setup_out = Raised(Exc("AtLastProvideOneValidRPCInEachBracket", 0))

\* The URL of a bracket answered the probe of setup.
PassedProbe(role, key, ep) ==
    \E p \in ProbesOf(role, key) : p.ep = ep /\ p.data = <<"up">>

\* C19: every endpoint of the registry, finished or under construction,
\* answered the probe of setup, and every request of a later read, nonce
\* query, gas estimate, broadcast or confirmation goes to such an endpoint:
\* a URL whose probe failed receives nothing but its probe.
C19_OnlyProbedEndpointsAreUsed ==
    /\ \A b \in RegistryBrackets : \A i \in DOMAIN providers[b[1]][b[2]] :
          PassedProbe(b[1], b[2], providers[b[1]][b[2]][i])
    /\ \A role \in {"view", "transaction"} : \A k \in DOMAIN valid_providers[role] :
          \A i \in DOMAIN valid_providers[role][k] :
              PassedProbe(role, k, valid_providers[role][k][i])
    /\ \A r \in sent \ Probes : PassedProbe(r.role, r.sb, r.ep)
    /\ \A p \in Probes : p.data = <<"down">> =>
          \A r \in sent : (r.role = p.role /\ r.sb = p.sb /\ r.ep = p.ep) => r = p

\* Setup dropped the first view URL and the second transaction URL, and a
\* transaction call then got its receipt from the one transaction endpoint
\* left.
C19_Witness ==
    /\ SetupSucceeded
    /\ providers.view = <<<<2>>>>
    /\ providers.transaction = <<<<1>>>>
    /\ op_name = "tx"
    /\ op_pc = "done"
    /\ op_out.kind = "return"
    /\ Requests("send_raw_transaction") # {}
    /\ Requests("wait_for_transaction_receipt") # {}
    /\ Requests("get_transaction_count") # {}

\* The exceptions of a sub-bracket after which _call_tx_function goes on,
\* and those it hands to the caller.
EscalatingErrors ==
    {"ConnectionError", "ReadTimeout", "TimeExhausted", "TransactionNotFound",
     "FailedOnAllRPCs"}

PropagatedErrors == {"TransactionFailedStatus", "TransactionValueError"}

\* The broadcast or confirmation race of the current sub-bracket has ended
\* with an exception that the call is about to handle.
StageFailedWith(names) ==
    /\ op_name = "tx"
    /\ op_pc \in {"broadcast_race", "confirm_race"}
    /\ batch_pc = "done"
    /\ batch_out.kind = "raise"
    /\ batch_out.exc.name \in names

\* C20: when the broadcast or confirmation stage of a sub-bracket ends with
\* an escalating error the call signs next at the following sub-bracket, or
\* raises Web3InterfaceException if that was the last one; when it ends with
\* TransactionFailedStatus or TransactionValueError the call ends with that
\* error; and a call that has ended tries nothing more.
C20_EscalateOrPropagate ==
    [][/\ StageFailedWith(EscalatingErrors) =>
             IF sb < Len(providers.transaction)
               THEN /\ sb' = sb + 1
                    /\ op_pc' = "sign"
                    /\ sent' = sent
               ELSE /\ op_pc' = "done"
                    /\ op_out' = Raised(Exc("Web3InterfaceException", 0))
       /\ StageFailedWith(PropagatedErrors) =>
             /\ op_pc' = "done"
             /\ op_out' = batch_out
             /\ sb' = sb
       /\ (op_name = "tx" /\ op_pc = "done") =>
             /\ op_pc' = "done"
             /\ sent' = sent
             /\ sb' = sb
             /\ op_out' = op_out]_vars

\* A call whose first sub-bracket failed to broadcast and whose second
\* sub-bracket timed out waiting for the receipt: both were tried, in order,
\* and the call raised Web3InterfaceException.
C20_Witness ==
    /\ op_name = "tx"
    /\ op_pc = "done"
    /\ Len(providers.transaction) = 2
    /\ sb = 2
    /\ op_out = Raised(Exc("Web3InterfaceException", 0))
    /\ \E j \in DOMAIN stages : stages[j] = <<"broadcast", 1, "raise">>
    /\ LastStage = <<"confirm", 2, "raise">>

\* Every endpoint of the latest fan-out failed.
LatestFanOutFailed ==
    /\ gather_list # <<>>
    /\ \A i \in DOMAIN gather_list : gather_list[i].kind = "raise"

\* C21: under both policies a read whose current sub-bracket failed at every
\* endpoint goes on to the next sub-bracket, so a read ends on such a
\* sub-bracket only at the last one, having tried all of them in order, and
\* then raises Web3InterfaceException.
C21_FailedSubBracketMovesOn ==
    (op_name = "view" /\ op_pc = "done" /\ LatestFanOutFailed) =>
        /\ sb = Len(contracts.view)
        /\ Len(view_log) = Len(contracts.view)
        /\ op_out = Raised(Exc("Web3InterfaceException", 0))

\* How many of the worker's waits were answered with one of the given kinds.
Answered(kinds) ==
    Cardinality({j \in DOMAIN worker.responses : worker.responses[j] \in kinds})

WaitTimeouts == {"TimeExhausted", "TransactionNotFound"}

\* C23: a worker retries at most 5 connection errors and at most 1 timeout,
\* each counted on its own; its timeout is doubled by the retried timeout and
\* by nothing else; the 6th connection error and the 2nd timeout are raised;
\* and it makes at most 7 waits.
C23_WorkerRetriesAreBounded ==
    LET w == worker.result
        ended == w.out.kind # "none"
        last == worker.responses[Len(worker.responses)]
    IN /\ w.con_err_count <= 5
       /\ w.tx_err_count <= 1
       /\ w.attempts <= 7
       /\ w.attempts = Len(worker.responses)
       /\ w.con_err_count = (IF Answered({"ConnectionError"}) <= 5
                               THEN Answered({"ConnectionError"}) ELSE 5)
       /\ w.tx_err_count = (IF Answered(WaitTimeouts) <= 1
                              THEN Answered(WaitTimeouts) ELSE 1)
       /\ w.timeout = (IF w.tx_err_count = 1 THEN 2 ELSE 1)
       /\ w.sleeps = w.con_err_count
       /\ Answered({"ConnectionError"}) = 6 => w.out = Raise("ConnectionError", 1)
       /\ Answered(WaitTimeouts) = 2 => (w.out = Raise(last, 1) /\ last \in WaitTimeouts)
       /\ (ended /\ w.out.kind = "raise" /\ w.out.exc.name = "ConnectionError") =>
             Answered({"ConnectionError"}) = 6
       /\ (ended /\ w.out.kind = "raise" /\ w.out.exc.name \in WaitTimeouts) =>
             Answered(WaitTimeouts) = 2

\* A worker that got its receipt at its 7th wait, after five connection
\* errors and one timeout.
C23_Witness ==
    /\ worker.result.attempts = 7
    /\ worker.result.out.kind = "ok"
    /\ worker.result.con_err_count = 5
    /\ worker.result.tx_err_count = 1
    /\ worker.result.timeout = 2

\* The confirmation workers that raised TransactionFailedStatus and that the
\* coordinator's wait has handed to its for loop, which has gone past them.
FailedStatusSeen ==
    {i \in DOMAIN tasks :
        /\ tasks[i] = "exc"
        /\ execution_list[i].exc.name = "TransactionFailedStatus"
        /\ i \notin not_completed_tasks
        /\ i \notin dones}

\* The confirmation race is running or has just been resolved.
InConfirmRace == op_name = "tx" /\ op_pc = "confirm_race"

\* C22: a worker whose receipt has a status other than 1 raises
\* TransactionFailedStatus, and only such a worker does; once the coordinator
\* of the confirmation race has read that error it waits no more, the workers
\* still running are cancelled, and the call raises that
\* TransactionFailedStatus at once, unless a worker had recorded a receipt of
\* status 1, which the call then returns.
C22_FailedStatusEndsConfirmation ==
    /\ [](/\ \A rs \in ConfirmAnswers :
                LET w == wait_and_get_tx_receipt(1, rs)
                IN w.out.kind # "none" =>
                      (rs[w.attempts] = "status0"
                         <=> w.out = Raise("TransactionFailedStatus", 1))
          /\ (InConfirmRace /\ FailedStatusSeen # {}) =>
                /\ batch_pc # "wait"
                /\ \/ cancel_event.is_set
                   \/ terminal_exception.name = "TransactionFailedStatus"
                /\ batch_pc \in {"gather", "done"} =>
                      \A i \in DOMAIN tasks : tasks[i] # "running"
                /\ batch_pc = "done" =>
                      /\ \A i \in not_completed_tasks : tasks[i] = "cancelled"
                      /\ batch_out = IF cancel_event.is_set
                                       THEN Returned(cancel_event.result_)
                                       ELSE Raised(terminal_exception))
    /\ [][(InConfirmRace /\ FailedStatusSeen # {} /\ batch_pc = "done") =>
             /\ op_pc' = "done"
             /\ sb' = sb
             /\ sent' = sent
             /\ op_out' = IF cancel_event.is_set
                            THEN Returned(<<"receipt", 1>>)
                            ELSE Raised(terminal_exception)]_vars

\* A call whose confirmation race had two workers: one read a receipt of
\* status 0, the other was cancelled while it waited, and the call raised
\* TransactionFailedStatus without trying the second sub-bracket.
C22_Witness ==
    /\ op_name = "tx"
    /\ op_pc = "done"
    /\ Len(providers.transaction) = 2
    /\ sb = 1
    /\ LastStage = <<"confirm", 1, "raise">>
    /\ op_out.kind = "raise"
    /\ op_out.exc.name = "TransactionFailedStatus"
    /\ Len(gather_list) = 2
    /\ \E i \in DOMAIN gather_list : gather_list[i].kind = "ok"

\* The attempts of the reduction that succeeded, and the k-th of them in the
\* order of the endpoints.
PoolOk == {i \in DOMAIN pool.execution_list : pool.execution_list[i].kind = "ok"}

KthOk(k) == CHOOSE i \in PoolOk : Cardinality({j \in PoolOk : j <= i}) = k

\* C24: an all-then-pick reduction that has ended has run every attempt to
\* its end; when no attempt succeeded it raised FailedOnAllRPCs quoting the
\* exception of the first attempt, and otherwise it returned what the
\* selector picks from the results of the successful attempts, in endpoint
\* order.
C24_AllThenPickReduces ==
    pool.pc = "done" =>
        /\ pool.finished = DOMAIN pool.execution_list
        /\ IF PoolOk = {}
             THEN /\ pool.out.kind = "raise"
                  /\ pool.out.exc.name = "FailedOnAllRPCs"
                  /\ pool.out.exc.msg = <<pool.execution_list[1].exc.name,
                                          pool.execution_list[1].exc.at>>
             ELSE pool.out =
                    Returned(ApplySelector(pool.result_selector,
                                           [k \in 1..Cardinality(PoolOk) |->
                                               pool.execution_list[KthOk(k)].val]))

\* The attempts that failed, with a non-soft error and with a soft one.
TerminalFailures ==
    {i \in DOMAIN tasks :
        tasks[i] = "exc" /\ ~IsInstance(execution_list[i].exc, exception_handler)}

SoftFailures ==
    {i \in DOMAIN tasks :
        tasks[i] = "exc" /\ IsInstance(execution_list[i].exc, exception_handler)}

\* The attempts the coordinator has been handed by a wait and has gone past.
Handled == DOMAIN tasks \ (not_completed_tasks \cup dones)

\* C25: the coordinator of a first-success race waits again only while every
\* attempt it has been handed failed softly; once it has stopped, no attempt
\* is left running; and the race resolves to a recorded result if there is
\* one, whatever failures were seen, otherwise to a non-soft failure if an
\* attempt failed so, otherwise to a soft failure if an attempt failed, and
\* to the final exception only when no attempt completed or failed.
C25_FirstSuccessPrecedence ==
    /\ batch_pc = "wait" => Handled \subseteq SoftFailures
    /\ batch_pc \in {"gather", "done"} => \A i \in DOMAIN tasks : tasks[i] # "running"
    /\ batch_pc = "done" =>
          IF SucceededTasks # {}
            THEN /\ batch_out.kind = "return"
                 /\ \E i \in SucceededTasks : batch_out.val = execution_list[i].val
          ELSE IF TerminalFailures # {}
            THEN \E i \in TerminalFailures : batch_out = Raised(execution_list[i].exc)
          ELSE IF SoftFailures # {}
            THEN \E i \in SoftFailures : batch_out = Raised(execution_list[i].exc)
          ELSE /\ batch_out.kind = "raise"
               /\ batch_out.exc.at = 0
               /\ batch_out.exc.name =
                     IF final_exception = "None" THEN "RuntimeError" ELSE final_exception

\* A race of three attempts: one recorded its result, one failed with a
\* non-soft error, both before the coordinator resumed and read the failure
\* first; the third was cancelled, and the race returned the result.
C25_Witness ==
    /\ batch_pc = "done"
    /\ Len(execution_list) = 3
    /\ SucceededTasks # {}
    /\ TerminalFailures # {}
    /\ terminal_exception # NoExc
    /\ \E i \in DOMAIN tasks : tasks[i] = "cancelled"
    /\ batch_out.kind = "return"

\* C26: once a result is recorded in a first-success race no later attempt
\* replaces it, so the race returns the result of the attempt that succeeded
\* first.
C26_RecordedResultWrittenOnce ==
    [][cancel_event.is_set => cancel_event'.result_ = cancel_event.result_]_vars

\* The chain id requests setup made, the registry's endpoints in
\* registration order, and what the i-th of them was asked and answered.
ChainRequests == Requests("chain_id")

Registered == ProviderItems(Len(rpc_urls))

ChainRequestOf(i) ==
    {r \in ChainRequests : <<r.role, r.sb, r.ep>> = Registered[i]}

ChainAsked(i) == ChainRequestOf(i) # {}

ChainAnswered(i) == \E r \in ChainRequestOf(i) : r.data = <<"id">>

\* Setup has stored a registry of at least one endpoint and has run the
\* chain-id derivation on it.
ChainIdDerived == setup_pc = "done" /\ ~providers.none /\ Registered # <<>>

\* C27: the chain-id derivation asks the registered endpoints in
\* registration order, stops at the first that answers and takes its chain
\* id; an endpoint that does not answer only makes it ask the next one; and
\* it fails only when no endpoint answered, with the timeout of the last.
C27_ChainIdFromFirstAnswering ==
    ChainIdDerived =>
        /\ \A i \in DOMAIN Registered :
              /\ ChainAsked(i) => \A j \in 1..(i - 1) : ChainAsked(j) /\ ~ChainAnswered(j)
              /\ (ChainAsked(i) /\ ~ChainAnswered(i) /\ i < Len(Registered)) =>
                    ChainAsked(i + 1)
              /\ ChainAnswered(i) => chain_id = <<1>>
        /\ chain_id = None =>
              /\ \A i \in DOMAIN Registered : ChainAsked(i) /\ ~ChainAnswered(i)
              /\ setup_out = Raise("TimeoutError", Registered[Len(Registered)][3])

\* No URL of the configuration answered the probe of setup: every probe
\* failed, or there was no URL to probe.
NoProbeAnswered == \A p \in Probes : p.data = <<"down">>

\* Setup went through every endpoint of its registry and made no handle.
NoHandleMade ==
    /\ chain_id # None
    /\ \A role \in {"view", "transaction"} : \A k \in DOMAIN contracts[role] :
          contracts[role][k] = <<>>

\* C28: a setup that ends without any live endpoint, the empty configuration
\* included, ends by raising ValueError('No available rpc provided').
C28_NoLiveEndpointRaisesNoRpc ==
    (setup_pc = "done" /\ (NoProbeAnswered \/ NoHandleMade)) =>
        setup_out = Raised(Exc("ValueError", 0))

\* The raw query's request reached the i-th endpoint of view sub-bracket k.
RawRequestAt(k, i) ==
    Req("view", k, providers.view[k][i], op_name, None) \in sent

\* C29: under either view policy a raw query that has ended has raced every
\* view sub-bracket up to the one it ended at, its request sent to every
\* endpoint of each; it ends with one of its soft errors only at the last
\* sub-bracket, with the soft error of that sub-bracket; and with any other
\* error it ends at the sub-bracket that raised it.
C29_RawQueriesRaceEverySubBracket ==
    (op_name \in RawQueries /\ op_pc = "done" /\ sb >= 1) =>
        /\ \A k \in 1..sb : \A i \in DOMAIN providers.view[k] : RawRequestAt(k, i)
        /\ \A k \in (sb + 1)..Len(providers.view) :
              \A i \in DOMAIN providers.view[k] : ~RawRequestAt(k, i)
        /\ (op_out.kind = "raise" /\ IsInstance(op_out.exc, SoftRaw(op_name))) =>
              /\ sb = Len(providers.view)
              /\ op_out.exc = last_exception
        /\ op_out.kind \in {"raise", "return"}

\* The runs of the RPC method in the call in progress.
RpcRuns == {k \in DOMAIN gas_trace : gas_trace[k].method = "RPC"}

\* The endpoints of a run that reported a price, those among them whose
\* price is within the ceiling, and those that answered with an HTTP error
\* response.
Priced(a) == {i \in DOMAIN a : a[i].kind = "price"}

InRange(a) == {i \in Priced(a) : a[i].price <= to_wei(gas_call.gas_upper_bound)}

ErrorResponses(a) == {i \in DOMAIN a : a[i].kind = "ClientResponseError"}

\* The first endpoint at which the iteration stops, 0 if it goes through all.
StopsAt(a) ==
    IF InRange(a) \cup ErrorResponses(a) = {} THEN 0
    ELSE CHOOSE i \in InRange(a) \cup ErrorResponses(a) :
            \A j \in InRange(a) \cup ErrorResponses(a) : i <= j

\* C30: the RPC method goes through the endpoints in order, passing over
\* those that fail on the connection and those whose price is above the
\* ceiling; it returns the price of the first endpoint at or below the
\* ceiling, times the multiplier of the priority; an HTTP error response
\* ends the iteration and is raised; with no price reported by any endpoint
\* it raises FailedToGetGasPrice, and with prices all above the ceiling
\* OutOfRangeTransactionFee.
C30_RpcTakesFirstPriceWithinCeiling ==
    \A k \in RpcRuns :
        LET a == gas_trace[k].env
            r == gas_trace[k].result
            s == StopsAt(a)
        IN /\ Len(a) = gas_cfg.n_providers
           /\ IF s # 0 /\ s \in InRange(a)
                THEN r = Returned([gasPrice |->
                                      a[s].price * gas_cfg.multipliers[gas_call.priority]])
              ELSE IF s # 0
                THEN r = Raised(Exc("ClientResponseError", s))
              ELSE IF Priced(a) = {}
                THEN r = Raised(Exc("FailedToGetGasPrice", 0))
              ELSE r = Raised(Exc("OutOfRangeTransactionFee", 0))

\* The RPC method passed over a first endpoint that failed on the connection
\* and returned the price of the second, which was exactly at the ceiling.
C30_Witness ==
    /\ gas_pc = "done"
    /\ \E k \in RpcRuns :
          /\ Len(gas_trace[k].env) = 2
          /\ gas_trace[k].env[1].kind = "ConnectionError"
          /\ gas_trace[k].env[2].kind = "price"
          /\ gas_trace[k].env[2].price = to_wei(gas_call.gas_upper_bound)
          /\ gas_trace[k].result.kind = "return"
          /\ gas_out = gas_trace[k].result

\* ---------------------------------------------------------------------
\* C31.  Every transport failure and every parse failure (invalid JSON,
\* missing priority key, missing fee field) of the Gas-API method surfaces
\* as FailedToGetGasPrice and as no other error.
\* ---------------------------------------------------------------------

\* The runs of the Gas-API method in the current get_gas_price call.
ApiRuns == {k \in 1..Len(gas_trace) : gas_trace[k].method = "GAS_API_PROVIDER"}

\* The GET failed, or its body could not be read as a quote.
TransportOrParseFailure(resp) == resp.kind \in {"transport", "bad_json", "no_key"}

C31_ApiFailuresAreFailedToGetGasPrice ==
    \A k \in ApiRuns :
        TransportOrParseFailure(gas_trace[k].env) =>
            /\ gas_trace[k].result.kind = "raise"
            /\ gas_trace[k].result.exc.name = "FailedToGetGasPrice"

\* ---------------------------------------------------------------------
\* C32.  After setup, every endpoint held in the registry has its own
\* contract handle and multicall handle: in each sub-bracket the handle
\* list is as long as the endpoint list and the i-th handle is bound to the
\* i-th endpoint.  A handle is modelled by the endpoint it is bound to.
\* ---------------------------------------------------------------------
C32_EveryEndpointHasItsHandle ==
    (setup_pc = "done" /\ setup_out.kind = "return") =>
        \A role \in {"view", "transaction"} :
            \A k \in DOMAIN providers[role] :
                /\ Len(contracts[role][k]) = Len(providers[role][k])
                /\ \A i \in DOMAIN providers[role][k] :
                      contracts[role][k][i] = providers[role][k][i]

\* ---------------------------------------------------------------------
\* C33.  A synchronous operation yields the same outcome, the same
\* returned value or the same raised exception, whether it is invoked on a
\* thread that already runs an event loop or on a thread with none: what
\* the caller got is what the call would have given on the other kind of
\* thread.
\* ---------------------------------------------------------------------
C33_SameOutcomeWithOrWithoutLoop ==
    thread_call.pc = "done" =>
        thread_call.out = thread_safe(~thread_call.running_loop, thread_call.inner)

\* ---------------------------------------------------------------------
\* C34.  The retry backoff of a confirmation worker is a suspension point:
\* while one worker is backing off after a connection error, every other
\* worker of the race whose endpoint has its answer can take its step, so
\* that a receipt another endpoint obtained is recorded without waiting for
\* the backoff to end.
\* ---------------------------------------------------------------------

\* Worker j is suspended in its wait and its endpoint has the final answer.
AnswerReady(j) == tasks[j] = "running" /\ backoffs[j] = 0

C34_BackoffIsSuspensionPoint ==
    \A i \in DOMAIN tasks : \A j \in DOMAIN tasks \ {i} :
        (sleeping = i /\ AnswerReady(j)) => ENABLED exec_task(j)

\* ---------------------------------------------------------------------
\* C35.  Within one transaction call nonce acquisition and fee estimation
\* each run once: they never start a second time, both have run when a
\* payload is assembled, the parameters they produced stay as they are
\* while the call escalates through the transaction sub-brackets, and every
\* payload broadcast by the call was built over these parameters, hence
\* over the same nonce.
\* ---------------------------------------------------------------------
StageStarts(stage) ==
    Cardinality({j \in DOMAIN stages : stages[j][1] = stage /\ stages[j][3] = "start"})

\* The transaction a broadcast payload was signed over.
PayloadParams(r) == r.data[2]

AfterFee == op_name = "tx" /\ op_pc \in {"sign", "broadcast", "broadcast_race", "confirm",
                                         "confirm_race"}

C35_NonceAndFeeOncePerCall ==
    /\ [](op_name = "tx" =>
            /\ StageStarts("nonce") <= 1
            /\ StageStarts("fee") <= 1
            /\ (AfterFee \/ sign_count > 0) =>
                  /\ StageStarts("nonce") = 1
                  /\ StageStarts("fee") = 1
            /\ \A r \in Requests("send_raw_transaction") :
                  /\ PayloadParams(r) = tx_params
                  /\ PayloadParams(r).nonce = tx_params.nonce)
    /\ [][AfterFee => tx_params' = tx_params]_vars

\* The call escalated: payloads were broadcast in two sub-brackets.
C35_Witness ==
    /\ op_name = "tx"
    /\ op_pc = "done"
    /\ \E r1, r2 \in Requests("send_raw_transaction") :
          /\ r1.sb # r2.sb
          /\ PayloadParams(r1).nonce = PayloadParams(r2).nonce
    /\ StageStarts("nonce") = 1
    /\ StageStarts("fee") = 1

\* ---------------------------------------------------------------------
\* C36.  If every endpoint request eventually completes, every logical
\* operation (read, getNonce, transaction call, raw query) eventually
\* returns or raises; on the way each sub-bracket is tried at most once per
\* stage of the operation, and a fan-out that was started is over once its
\* attempts are.
\* ---------------------------------------------------------------------
OperationEnded == op_pc = "done" /\ op_out.kind \in {"return", "raise"}

\* How many times a stage of the transaction call started at sub-bracket k.
StartsAt(stage, k) ==
    Cardinality({j \in DOMAIN stages : stages[j] = <<stage, k, "start">>})

C36_EveryOperationEnds ==
    /\ (op_pc # "idle") ~> OperationEnded
    /\ (batch_pc \in {"wait", "for", "cancel", "gather"}) ~> (batch_pc = "done")
    /\ [](/\ Len(view_log) <= Len(contracts.view)
          /\ \A k \in DOMAIN providers.transaction :
                \A stage \in {"sign", "broadcast", "confirm"} : StartsAt(stage, k) <= 1)
    /\ [][op_pc' = op_pc => sb' >= sb]_vars

\* A transaction call that ended after it had waited for the receipt in
\* the last transaction sub-bracket.
C36_Witness ==
    /\ op_name = "tx"
    /\ OperationEnded
    /\ StartsAt("confirm", Len(providers.transaction)) = 1
    /\ Len(providers.transaction) > 1

====
